---- MODULE Spec2Model ----
(***************************************************************************)
(* Job lifecycle of the crawl service: the jobs table and the ip_usage     *)
(* table (db/queries.py), the API handlers that create and expire jobs     *)
(* (api/routes/jobs.py, api/middleware/rate_limit.py), the worker poll     *)
(* loop (worker/main.py), run_job (worker/runner.py), the heartbeat thread *)
(* (worker/heartbeat.py), the stuck detector (worker/stuck_detector.py)    *)
(* and finalize_job (worker/finalizer.py).                                 *)
(*                                                                         *)
(* Every database statement commits on its own (queries.py commits after   *)
(* each execute), so the steps of two workers, of the heartbeat thread and *)
(* of the API interleave between statements.  An action below is one       *)
(* statement or a short run of statements of one handler.                  *)
(*                                                                         *)
(* Time: a timestamp is kept as its age (now - timestamp) in seconds, up   *)
(* to the thresholds it is compared with; -1 stands for NULL.              *)
(***************************************************************************)
EXTENDS Integers, Sequences, FiniteSets, TLC

\* ------------------------------------------------------------------ bounds
MaxJobs == 1          \* jobs submitted in the lifecycle specification
NumWorkers == 2       \* worker processes
NumRequests == 2      \* POST /v1/jobs handlers in flight at once
MaxLines == 1         \* lines a job's pages.raw.jsonl can hold
MaxAdmitJobs == 7     \* jobs submitted in the admission specification
MaxResponses == 5     \* responses a static crawl gets
MaxRaw == 3           \* records of a raw log handed to the finalizer
max_pages == 1        \* the max_pages of the job whose files are followed
MaxPath == 4          \* pieces of the path of a link
NumFetchers == 2      \* fetcher processes that work on one job at a time
MaxItems == 3         \* items the identity pipeline of a job is given
MaxThrottled == 7     \* responses of one host the throttle middleware gets
MaxReleases == 3      \* releases of one job's counter slot that are followed

\* --------------------------------------------------------- program constants
CONCURRENT_JOBS_PER_IP == 5
HEARTBEAT_INTERVAL_SECONDS == 30
ORPHANED_THRESHOLD_SECONDS == 120
STALLED_THRESHOLD_SECONDS == 300
HARD_STALLED_THRESHOLD_SECONDS == 900
MAX_RESTARTS == 2
\* the thresholds of config/settings.py, in percent
BLOCKING_429_THRESHOLD == 20
BLOCKING_403_THRESHOLD == 30
DUPLICATE_HASH_THRESHOLD == 50
\* AdaptiveThrottleMiddleware: the delays in milliseconds, RECOVERY_RATE in
\* tenths, BREAKER_RESET_TIME in seconds
INITIAL_DELAY == 1000
MAX_DELAY == 60000
BACKOFF_FACTOR == 2
RECOVERY_RATE == 9
FAILURE_THRESHOLD == 5
BREAKER_RESET_TIME == 300

QUEUED == "queued"
RUNNING == "running"
FINALIZING == "finalizing"
DONE == "done"
FAILED == "failed"
EXPIRED == "expired"
\* JobState.CANCELLED is referenced by runner.py and stuck_detector.py but is
\* not defined in config/constants.py; the state is the one the design names.
CANCELLED == "cancelled"

TERMINAL == {DONE, FAILED, EXPIRED}
JobStates == {QUEUED, RUNNING, FINALIZING, DONE, FAILED, EXPIRED, CANCELLED}

NORMAL == "normal"
THROTTLED == "throttled"
BLOCKED == "blocked"
LOGIN_REQUIRED == "login_required"
UNKNOWN == "unknown"
SiteStatuses == {NORMAL, THROTTLED, BLOCKED, LOGIN_REQUIRED, UNKNOWN}

Workers == 1..NumWorkers
\* Worker 1 is the worker that keeps polling; the others may be killed.
Mortal == Workers \ {1}
Requests == 1..NumRequests
IPs == {"ipA", "ipB"}
NULL == -1

\* ------------------------------------------------------------------- time
\* A timestamp is kept as its age in seconds, now - timestamp, rounded down to
\* the last threshold it has passed: 0, or one second past ORPHANED_THRESHOLD,
\* STALLED_THRESHOLD or HARD_STALLED_THRESHOLD.  NULL is a column never written.
Rungs == {0, ORPHANED_THRESHOLD_SECONDS + 1, STALLED_THRESHOLD_SECONDS + 1,
          HARD_STALLED_THRESHOLD_SECONDS + 1}

Round(a) == CHOOSE r \in Rungs : r <= a /\ \A q \in Rungs : q <= a => q <= r

\* the time that passes in one step of the clock
Durations == {ORPHANED_THRESHOLD_SECONDS + 1,
              STALLED_THRESHOLD_SECONDS - ORPHANED_THRESHOLD_SECONDS,
              HARD_STALLED_THRESHOLD_SECONDS - STALLED_THRESHOLD_SECONDS}

\* timestamp < now - threshold, for a timestamp of the given age
OlderThan(a, threshold) == a # NULL /\ a > threshold

Older(a, d) == IF a = NULL THEN NULL ELSE Round(a + d)

VARIABLES
  jobs,        \* the jobs table: a sequence of rows, in creation order, id = index
  ts,          \* per job: ages of runner_heartbeat_at, last_progress_at, started_at,
               \* and of the last rise of pages_fetched (history)
  expired,     \* ids of the jobs whose expires_at has passed
  ip_usage,    \* ip_usage.concurrent_count per ip hash (no row = 0)
  raw,         \* per job: lines in pages.raw.jsonl, NULL when the file does not exist
  rpc,         \* per POST handler: where it is
  rip,         \* per POST handler: the requester's ip hash
  resp,        \* per POST handler: its last response
  pc,          \* per worker: where it is
  wjob,        \* per worker: the job id it is running (0 = none)
  wlocal,      \* per worker: the locals of run_job
  wfound,      \* per worker: the rows a detector query returned, not yet handled
  decrements,  \* per job: calls of decrement_ip_concurrent made for it (history)
  restart_events, \* per job: RESTART rows in job_events (history)
  log,         \* the job_events rows the last step inserted, in order
  tracker,     \* the BlockingSignalTracker of a static crawl
  evidence_file, \* blocking_evidence.json of its job
  verdict,     \* what _should_fallback made of it
  raw_log,     \* pages.raw.jsonl of one job: its records, in file order
  pages_jsonl, \* pages.jsonl of that job
  spider,      \* the static fetcher process of that job: DocsSpider and the
               \* BudgetControlPipeline of the run
  documents,   \* the content hashes in the documents table of that job
  href,        \* a link a fetcher meets, as urlparse splits it
  link_canonical, \* what canonicalize_url made of it
  request,     \* the per-job GET request a handler is serving
  reply,       \* the response it returns
  throttle,    \* AdaptiveThrottleMiddleware: its entries for one host
  sent,        \* the request to that host that is with the downloader
  doc_rows,    \* the documents table: the rows of one job, in insertion order
  url_rows,    \* the document_urls table: the rows of that job
  pitem,       \* per fetcher process of the job: the item its
               \* DocumentIdentityPipeline has in hand
  items        \* the items that left the pipeline, in that order (history)

lifeVars == <<jobs, ts, expired, ip_usage, raw, rpc, rip, resp, pc, wjob, wlocal,
              wfound, decrements, restart_events, log>>

\* one static crawl, followed from its responses to the fallback decision
detectVars == <<tracker, evidence_file, verdict>>

\* the files of one job, followed from the fetcher runs to the finalizer
contentVars == <<raw_log, pages_jsonl, spider, documents>>

\* one link, followed through canonicalize_url
urlVars == <<href, link_canonical>>

\* the side models that neither the crawl nor the files touch
\* one per-job GET handler of the API
getVars == <<request, reply>>

\* the downloader middleware of one static crawl, followed for one host
throttleVars == <<throttle, sent>>

\* the document identity layer of one job
identityVars == <<doc_rows, url_rows, pitem, items>>

crawlVars == <<throttleVars, identityVars>>

moreVars == <<urlVars, getVars, crawlVars>>

sideVars == <<detectVars, contentVars, moreVars>>

vars == <<lifeVars, sideVars>>

apiVars == <<rpc, rip, resp>>
workerVars == <<pc, wjob, wlocal, wfound>>

JobIds == 1..Len(jobs)

NoLocal == [fallback_retry_count |-> 0, success |-> FALSE, run_pages |-> 0,
            state |-> "none"]

NoResp == [status |-> 0, current_jobs |-> 0]

\* a Python dict without a key
EmptyDict == [k \in {} |-> 0]

\* blocking_evidence.json does not exist; _should_fallback has not run
NoFile == [exists |-> FALSE]
NoVerdict == [decided |-> FALSE]

\* BlockingSignalTracker.__init__
NewTracker ==
  [total_responses |-> 0, status_codes |-> EmptyDict, captcha_hits |-> 0,
   waf_hits |-> 0, login_redirects |-> 0, text_hashes |-> EmptyDict]

DetectInit ==
  /\ tracker = NewTracker
  /\ evidence_file = NoFile
  /\ verdict = NoVerdict

\* pages.jsonl before the finalizer has written it
NoPages == [exists |-> FALSE, lines |-> << >>]

\* no fetcher process yet; reason is the one given to close_spider
NoSpider == [open |-> FALSE, pages_fetched |-> 0, seen_urls |-> {},
             quality_pages_count |-> 0, runs |-> 0, reason |-> "-"]

ContentInit ==
  /\ raw_log = << >>
  /\ pages_jsonl = NoPages
  /\ spider = NoSpider
  /\ documents = {}

\* a URL as urlparse splits it: the netloc is host[:port], the path a sequence
\* of "/" and of pieces of segments, the query the set of its parameter names
Url(scheme, host, port, path, query, fragment) ==
  [scheme |-> scheme, host |-> host, port |-> port, path |-> path,
   query |-> query, fragment |-> fragment]

\* the empty string
NoUrl == Url("", "", "", << >>, {}, "")

UrlInit ==
  /\ href = NoUrl
  /\ link_canonical = NoUrl

\* no GET request is being served
NoRequest == [endpoint |-> "-", job_id |-> 0, token |-> ""]
NoReply == [code |-> 0, error |-> "-", message |-> "-", state |-> "-", file |-> "-"]

GetInit ==
  /\ request = NoRequest
  /\ reply = NoReply

\* AdaptiveThrottleMiddleware.__init__: the defaults of the defaultdicts
\* (delays in milliseconds), breaker_open for time.time() <
\* host_breaker_until[host]. History: tripped says that the last response set
\* host_breaker_until, streak counts the failures at the end of the responses
\* received so far, responses counts them all
NoThrottle ==
  [delay |-> INITIAL_DELAY, failures |-> 0, breaker_open |-> FALSE,
   tripped |-> FALSE, streak |-> 0, responses |-> 0]

\* no request is with the downloader
NoSent == [host |-> "-", throttle_breaker |-> FALSE]

ThrottleInit ==
  /\ throttle = NoThrottle
  /\ sent = NoSent

\* the fetcher processes that write to the directory and the tables of one
\* job at one time: the holder of the job, and a second one after a double
\* lease or a re-queue of a job whose worker is alive
Fetchers == 1..NumFetchers

\* no item in hand
NoItem == [url |-> NoUrl, text_hash |-> "-", existing_doc |-> 0]

IdentityInit ==
  /\ doc_rows = << >>
  /\ url_rows = << >>
  /\ pitem = [p \in Fetchers |-> NoItem]
  /\ items = << >>

CrawlInit == ThrottleInit /\ IdentityInit

MoreInit == UrlInit /\ GetInit /\ CrawlInit

SideInit == DetectInit /\ ContentInit /\ MoreInit

LifeInit ==
  /\ jobs = << >>
  /\ ts = << >>
  /\ expired = {}
  /\ ip_usage = [i \in IPs |-> 0]
  /\ raw = << >>
  /\ rpc = [r \in Requests |-> "idle"]
  /\ rip = [r \in Requests |-> "ipA"]
  /\ resp = [r \in Requests |-> NoResp]
  /\ pc = [w \in Workers |-> "detect"]
  /\ wjob = [w \in Workers |-> 0]
  /\ wlocal = [w \in Workers |-> NoLocal]
  /\ wfound = [w \in Workers |-> {}]
  /\ decrements = << >>
  /\ restart_events = << >>
  /\ log = << >>

Init == SideInit /\ LifeInit

\* ------------------------------------------------------------- db/queries.py

\* create_job: the INSERT; the columns the schema defaults are zero / NULL
NewJob(ip, use_js, url) ==
  [state |-> QUEUED, ip |-> ip, use_js |-> use_js, start_url |-> url,
   pages_fetched |-> 0, pages_exported |-> 0, restart_count |-> 0,
   fallback_retry_count |-> 0, started |-> FALSE, finished |-> FALSE,
   last_error |-> "none", crawler_strategy |-> "none", site_status |-> "none"]

NewTs == [hb |-> NULL, progress |-> NULL, started |-> NULL, rose |-> NULL]

\* the history kept next to the timestamps: rose is the age of the last write
\* that raised the row's pages_fetched (from old to new)
Rose(t, old, new) == IF new > old THEN [t EXCEPT !.rose = 0] ELSE t

\* insert_job_event: a STATE_CHANGE row {"from": old, "to": new}
StateChange(j, old, new) ==
  [job |-> j, event |-> "state_change", from |-> old, to |-> new]

\* insert_job_event: a row of another type, or a STATE_CHANGE-typed row that
\* carries a reason instead of from / to
Event(j, type) == [job |-> j, event |-> type, from |-> "-", to |-> "-"]

\* update_job_state: the row after the update (no check of the state it leaves)
update_job_state(job, new_state) ==
  [job EXCEPT !.state = new_state,
              !.started = (job.started \/ new_state = RUNNING),
              !.finished = (job.finished \/ new_state \in TERMINAL)]

\* update_job_state: started_at is stamped on the first entry into RUNNING
StampStarted(job, t, new_state) ==
  IF new_state = RUNNING /\ ~job.started THEN [t EXCEPT !.started = 0] ELSE t

\* increment_ip_concurrent
increment_ip_concurrent(usage, ip) == [usage EXCEPT ![ip] = @ + 1]

\* decrement_ip_concurrent: MAX(0, concurrent_count - 1)
decrement_ip_concurrent(usage, ip) ==
  [usage EXCEPT ![ip] = IF @ - 1 > 0 THEN @ - 1 ELSE 0]

\* get_next_queued_job: the oldest QUEUED row, 0 when there is none
get_next_queued_job ==
  IF \E j \in JobIds : jobs[j].state = QUEUED
  THEN CHOOSE j \in JobIds : /\ jobs[j].state = QUEUED
                             /\ \A k \in JobIds : jobs[k].state = QUEUED => j <= k
  ELSE 0

\* get_jobs_by_state: called by _handle_cancelled_jobs, not defined in
\* db/queries.py; the rows in the given state
get_jobs_by_state(state) == {j \in JobIds : jobs[j].state = state}

\* a query that looks at RUNNING rows only
find_orphaned_jobs_running_only ==
  {j \in JobIds : /\ jobs[j].state = RUNNING
                  /\ OlderThan(ts[j].hb, ORPHANED_THRESHOLD_SECONDS)}

\* find_orphaned_jobs
find_orphaned_jobs ==
  {j \in JobIds : /\ jobs[j].state \in {RUNNING, FINALIZING}
                  /\ OlderThan(ts[j].hb, ORPHANED_THRESHOLD_SECONDS)}

\* a stalled query that goes by the last rise of pages_fetched
find_stalled_jobs_by_rise ==
  {j \in JobIds : /\ jobs[j].state = RUNNING
                  /\ OlderThan(ts[j].rose, STALLED_THRESHOLD_SECONDS)
                  /\ jobs[j].pages_fetched > 0}

\* find_stalled_jobs
find_stalled_jobs ==
  {j \in JobIds : /\ jobs[j].state = RUNNING
                  /\ OlderThan(ts[j].progress, STALLED_THRESHOLD_SECONDS)
                  /\ jobs[j].pages_fetched > 0}

\* find_hard_stalled_jobs
find_hard_stalled_jobs ==
  {j \in JobIds : /\ jobs[j].state = RUNNING
                  /\ OlderThan(ts[j].started, HARD_STALLED_THRESHOLD_SECONDS)
                  /\ jobs[j].pages_fetched = 0}

\* the rows of a detector query as the handler's loop sees them: id and the
\* restart_count read with the row
Rows(S) == {<<j, jobs[j].restart_count>> : j \in S}

\* ------------------------------------------------------------ the API process

\* a check that turns requests away one job early
is_allowed_early(count) == count + 1 < CONCURRENT_JOBS_PER_IP

\* rate_limit_required / check_rate_limit
is_allowed(count) == count < CONCURRENT_JOBS_PER_IP

\* rate_limit_required: the check that runs before create_job; limit bounds
\* the jobs the clients submit
PostCheck(r, ip, limit) ==
  /\ rpc[r] = "idle"
  /\ Len(jobs) + Cardinality({q \in Requests : rpc[q] = "admitted"}) < limit
  /\ LET count == ip_usage[ip] IN
     IF is_allowed(count)
     THEN /\ rpc' = [rpc EXCEPT ![r] = "admitted"]
          /\ rip' = [rip EXCEPT ![r] = ip]
          /\ resp' = [resp EXCEPT ![r] = NoResp]
     ELSE /\ resp' = [resp EXCEPT ![r] = [status |-> 429, current_jobs |-> count]]
          /\ rip' = [rip EXCEPT ![r] = ip]
          /\ UNCHANGED rpc
  /\ UNCHANGED <<jobs, ts, expired, ip_usage, raw, decrements, restart_events>>
  /\ UNCHANGED workerVars
  /\ log' = << >>
  /\ UNCHANGED sideVars

\* create_job (route): queries.create_job, committed before the counter is touched
PostCreate(r, use_js, url) ==
  /\ rpc[r] = "admitted"
  /\ jobs' = Append(jobs, NewJob(rip[r], use_js, url))
  /\ ts' = Append(ts, NewTs)
  /\ raw' = Append(raw, NULL)
  /\ decrements' = Append(decrements, 0)
  /\ restart_events' = Append(restart_events, 0)
  /\ rpc' = [rpc EXCEPT ![r] = "created"]
  /\ UNCHANGED <<expired, ip_usage, rip, resp>>
  /\ UNCHANGED workerVars
  /\ log' = <<StateChange(Len(jobs) + 1, "none", QUEUED)>>
  /\ UNCHANGED sideVars

\* create_job (route): validate_url rejects the start_url, 400 and no job
PostInvalid(r) ==
  /\ rpc[r] = "admitted"
  /\ rpc' = [rpc EXCEPT ![r] = "idle"]
  /\ resp' = [resp EXCEPT ![r] = [status |-> 400, current_jobs |-> 0]]
  /\ UNCHANGED <<jobs, ts, expired, ip_usage, raw, rip, decrements, restart_events>>
  /\ UNCHANGED workerVars
  /\ log' = << >>
  /\ UNCHANGED sideVars

\* create_job (route): queries.increment_ip_concurrent, then the 201 response
PostIncrement(r) ==
  /\ rpc[r] = "created"
  /\ ip_usage' = increment_ip_concurrent(ip_usage, rip[r])
  /\ rpc' = [rpc EXCEPT ![r] = "idle"]
  /\ resp' = [resp EXCEPT ![r] = [status |-> 201, current_jobs |-> 0]]
  /\ UNCHANGED <<jobs, ts, expired, raw, rip, decrements, restart_events>>
  /\ UNCHANGED workerVars
  /\ log' = << >>
  /\ UNCHANGED sideVars

\* the clock passes a job's expires_at (created_at + JOB_EXPIRY_HOURS); jobs
\* expire in the order they were created
ExpiryPasses(j) ==
  /\ j \in JobIds
  /\ j \notin expired
  /\ \A k \in JobIds : k < j => k \in expired
  /\ expired' = expired \cup {j}
  /\ UNCHANGED <<jobs, ts, ip_usage, raw, decrements, restart_events>>
  /\ UNCHANGED apiVars
  /\ UNCHANGED workerVars
  /\ log' = << >>
  /\ UNCHANGED sideVars

\* get_job_status with the job's token: the expiry branch
GetStatusExpire(j) ==
  /\ j \in JobIds
  /\ jobs[j].state # EXPIRED
  /\ j \in expired
  /\ jobs' = [jobs EXCEPT ![j] = update_job_state(@, EXPIRED)]
  /\ UNCHANGED <<ts, expired, ip_usage, raw, decrements, restart_events>>
  /\ UNCHANGED apiVars
  /\ UNCHANGED workerVars
  /\ log' = <<StateChange(j, jobs[j].state, EXPIRED)>>
  /\ UNCHANGED sideVars

\* ----------------------------------------------------------- worker/main.py
\* The poll loop: detect_and_handle_stuck_jobs(), then get_next_queued_job()
\* and run_job(), or a sleep.

Min(S) == CHOOSE x \in S : \A y \in S : x[1] <= y[1]

FailedRow(job, reason) ==
  [update_job_state(job, FAILED) EXCEPT !.last_error = reason]

\* increment_restart_count, then update_job_state(job_id, QUEUED)
RestartRow(job) ==
  update_job_state([job EXCEPT !.restart_count = @ + 1], QUEUED)

\* the loop body of _handle_orphaned_jobs and _handle_stalled_jobs for one row
\* <<job id, restart_count of the row>>: below MAX_RESTARTS the job is queued
\* again with the restart_count read afresh plus one, else it is FAILED
HandleStuckRow(w, row, reason) ==
  LET j == row[1] IN
  /\ IF row[2] < MAX_RESTARTS
     THEN /\ jobs' = [jobs EXCEPT ![j] = RestartRow(@)]
          /\ restart_events' = [restart_events EXCEPT ![j] = @ + 2]
          /\ UNCHANGED <<ip_usage, decrements>>
          /\ log' = <<Event(j, "restart"), StateChange(j, jobs[j].state, QUEUED),
                      Event(j, "restart")>>
     ELSE /\ jobs' = [jobs EXCEPT ![j] = FailedRow(@, reason)]
          /\ ip_usage' = decrement_ip_concurrent(ip_usage, jobs[j].ip)
          /\ decrements' = [decrements EXCEPT ![j] = @ + 1]
          /\ UNCHANGED restart_events
          /\ log' = <<StateChange(j, jobs[j].state, FAILED),
                      Event(j, "state_change")>>
  /\ wfound' = [wfound EXCEPT ![w] = @ \ {row}]
  /\ UNCHANGED <<ts, expired, raw, pc, wjob, wlocal>>
  /\ UNCHANGED apiVars
  /\ UNCHANGED sideVars

\* detect_and_handle_stuck_jobs: _handle_cancelled_jobs has returned (its
\* query gave no row, or its loop is through), then find_orphaned_jobs
FindOrphaned(w) ==
  /\ \/ pc[w] = "detect" /\ get_jobs_by_state(CANCELLED) = {}
     \/ pc[w] = "cancelled" /\ wfound[w] = {}
  /\ wfound' = [wfound EXCEPT ![w] = Rows(find_orphaned_jobs)]
  /\ pc' = [pc EXCEPT ![w] = "orphaned"]
  /\ UNCHANGED <<jobs, ts, expired, ip_usage, raw, wjob, wlocal, decrements, restart_events>>
  /\ UNCHANGED apiVars
  /\ log' = << >>
  /\ UNCHANGED sideVars

\* _handle_orphaned_jobs, _handle_stalled_jobs: one turn of the loop (the two
\* loop bodies differ in the reason they record)
HandleStuck(w) ==
  /\ pc[w] \in {"orphaned", "stalled"}
  /\ wfound[w] # {}
  /\ HandleStuckRow(w, Min(wfound[w]), pc[w])

\* _handle_stalled_jobs: find_stalled_jobs
FindStalled(w) ==
  /\ pc[w] = "orphaned"
  /\ wfound[w] = {}
  /\ wfound' = [wfound EXCEPT ![w] = Rows(find_stalled_jobs)]
  /\ pc' = [pc EXCEPT ![w] = "stalled"]
  /\ UNCHANGED <<jobs, ts, expired, ip_usage, raw, wjob, wlocal, decrements, restart_events>>
  /\ UNCHANGED apiVars
  /\ log' = << >>
  /\ UNCHANGED sideVars

\* _handle_hard_stalled_jobs: find_hard_stalled_jobs
FindHardStalled(w) ==
  /\ pc[w] = "stalled"
  /\ wfound[w] = {}
  /\ wfound' = [wfound EXCEPT ![w] = Rows(find_hard_stalled_jobs)]
  /\ pc' = [pc EXCEPT ![w] = "hard_stalled"]
  /\ UNCHANGED <<jobs, ts, expired, ip_usage, raw, wjob, wlocal, decrements, restart_events>>
  /\ UNCHANGED apiVars
  /\ log' = << >>
  /\ UNCHANGED sideVars

\* a hard-stalled handler with the restart branch of the other two handlers
HandleHardStalledOrRestart(w) ==
  /\ pc[w] = "hard_stalled"
  /\ wfound[w] # {}
  /\ HandleStuckRow(w, Min(wfound[w]), "hard_stalled")

\* _handle_hard_stalled_jobs: one turn of the loop
HandleHardStalled(w) ==
  /\ pc[w] = "hard_stalled"
  /\ wfound[w] # {}
  /\ LET row == Min(wfound[w])
         j == row[1] IN
     /\ jobs' = [jobs EXCEPT ![j] = FailedRow(@, "hard_stalled")]
     /\ ip_usage' = decrement_ip_concurrent(ip_usage, jobs[j].ip)
     /\ decrements' = [decrements EXCEPT ![j] = @ + 1]
     /\ UNCHANGED restart_events
     /\ log' = <<StateChange(j, jobs[j].state, FAILED), Event(j, "state_change")>>
     /\ wfound' = [wfound EXCEPT ![w] = @ \ {row}]
  /\ UNCHANGED <<ts, expired, raw, pc, wjob, wlocal>>
  /\ UNCHANGED apiVars
  /\ UNCHANGED sideVars

\* main: job = queries.get_next_queued_job(); run_job(job_id) or sleep
NextQueued(w) ==
  /\ pc[w] = "hard_stalled"
  /\ wfound[w] = {}
  /\ LET j == get_next_queued_job IN
     IF j = 0
     THEN /\ pc' = [pc EXCEPT ![w] = "detect"]
          /\ UNCHANGED wjob
     ELSE /\ pc' = [pc EXCEPT ![w] = "run_job"]
          /\ wjob' = [wjob EXCEPT ![w] = j]
  /\ UNCHANGED <<jobs, ts, expired, ip_usage, raw, wlocal, wfound, decrements, restart_events>>
  /\ UNCHANGED apiVars
  /\ log' = << >>
  /\ UNCHANGED sideVars

\* --------------------------------------------------------- worker/runner.py

\* the hostname of a start URL, as its labels
Hostname(url) ==
  IF url = "spa" THEN <<"anything", "vercel", "app">> ELSE <<"docs", "example", "com">>

\* JS_DOMAIN_PATTERNS: the base of two of the "*.base" patterns
JS_DOMAIN_PATTERNS == {<<"vercel", "app">>, <<"gitbook", "io">>}

\* _matches_pattern for a "*.base" pattern: the hostname ends with .base or is
\* base itself
matches_pattern(hostname, base) ==
  /\ Len(base) <= Len(hostname)
  /\ SubSeq(hostname, Len(hostname) - Len(base) + 1, Len(hostname)) = base

\* is_js_heavy_domain(start_url)
is_js_heavy_domain(url) ==
  \E pattern \in JS_DOMAIN_PATTERNS : matches_pattern(Hostname(url), pattern)

\* run_job: job = get_job_by_id(job_id); update_job_state(job_id, RUNNING)
Lease(w) ==
  /\ pc[w] = "run_job"
  /\ LET j == wjob[w] IN
     /\ wlocal' = [wlocal EXCEPT ![w] =
                     [NoLocal EXCEPT !.fallback_retry_count =
                                        jobs[j].fallback_retry_count]]
     /\ jobs' = [jobs EXCEPT ![j] = update_job_state(@, RUNNING)]
     /\ ts' = [ts EXCEPT ![j] = StampStarted(jobs[j], @, RUNNING)]
  /\ pc' = [pc EXCEPT ![w] = "start"]
  /\ UNCHANGED <<expired, ip_usage, raw, wjob, wfound, decrements, restart_events>>
  /\ UNCHANGED apiVars
  /\ log' = <<StateChange(wjob[w], jobs[wjob[w]].state, RUNNING)>>
  /\ UNCHANGED sideVars

\* update_heartbeat(job_id, pages_fetched) with the line count of the raw log
update_heartbeat(job, lines) == [job EXCEPT !.pages_fetched = lines]

BeatTs(t) == [t EXCEPT !.hb = 0, !.progress = 0]

Lines(j) == IF raw[j] = NULL THEN 0 ELSE raw[j]

\* a selection that skips the pattern table
Strategy_no_detection(job) ==
  IF job.use_js THEN "playwright_user_requested" ELSE "scrapy"

\* the strategy run_job selects before the crawl
Strategy(job) ==
  IF job.use_js THEN "playwright_user_requested"
  ELSE IF is_js_heavy_domain(job.start_url) THEN "playwright_preemptive"
  ELSE "scrapy"

\* run_job: heartbeat.start() (the thread beats at once), the strategy is
\* chosen from the job read at the start and stored; the JS fetcher opens the
\* raw log in append mode when it starts
StartCrawl(w) ==
  /\ pc[w] = "start"
  /\ LET j == wjob[w]
         strategy == Strategy(jobs[j])
         js == strategy # "scrapy" IN
     /\ jobs' = [jobs EXCEPT ![j] =
                   [update_heartbeat(@, Lines(j)) EXCEPT !.crawler_strategy = strategy]]
     /\ ts' = [ts EXCEPT ![j] = Rose(BeatTs(@), jobs[j].pages_fetched, Lines(j))]
     /\ raw' = [raw EXCEPT ![j] = IF js /\ @ = NULL THEN 0 ELSE @]
     /\ UNCHANGED wlocal
     /\ pc' = [pc EXCEPT ![w] = IF js THEN "playwright" ELSE "scrapy"]
     /\ log' = IF strategy = "playwright_preemptive"
               THEN <<Event(j, "js_domain_detected")>> ELSE << >>
  /\ UNCHANGED <<expired, ip_usage, wjob, wfound, decrements, restart_events>>
  /\ UNCHANGED apiVars
  /\ UNCHANGED sideVars

HeartbeatAlive(w) == pc[w] \in {"scrapy", "playwright", "finally"}

\* HeartbeatThread.cancellation_requested: read by run_job, not defined in
\* worker/heartbeat.py; set once the thread has seen its job CANCELLED
cancellation_requested(j) == jobs[j].state = CANCELLED

\* HeartbeatThread._update_heartbeat
Heartbeat(w) ==
  /\ HeartbeatAlive(w)
  /\ LET j == wjob[w] IN
     /\ jobs' = [jobs EXCEPT ![j] = update_heartbeat(@, Lines(j))]
     /\ ts' = [ts EXCEPT ![j] = Rose(BeatTs(@), jobs[j].pages_fetched, Lines(j))]
  /\ UNCHANGED <<expired, ip_usage, raw, decrements, restart_events>>
  /\ UNCHANGED apiVars
  /\ UNCHANGED workerVars
  /\ log' = << >>
  /\ UNCHANGED sideVars

\* a fetcher appends one record to pages.raw.jsonl (JSONLWriterPipeline,
\* PlaywrightCrawler._write_record)
FetchPage(w) ==
  /\ pc[w] \in {"scrapy", "playwright"}
  /\ LET j == wjob[w] IN
     /\ Lines(j) < MaxLines
     /\ raw' = [raw EXCEPT ![j] = Lines(j) + 1]
     /\ wlocal' = [wlocal EXCEPT ![w].run_pages =
                                   IF pc[w] = "playwright" THEN @ + 1 ELSE @]
  /\ UNCHANGED <<jobs, ts, expired, ip_usage, pc, wjob, wfound, decrements, restart_events>>
  /\ UNCHANGED apiVars
  /\ log' = << >>
  /\ UNCHANGED sideVars

\* _should_fallback: the decision from the page count and the site status
should_fallback(pages, site_status) ==
  pages = 0 \/ site_status \in {BLOCKED, THROTTLED}

\* run_job: the fallback is taken only when the job read at the start of
\* run_job had not fallen back yet
fallback_allowed(fallback_count) == fallback_count < 1

\* run_job: _run_scrapy returns (success is what the exit code and stderr of the
\* subprocess give; opened says whether the spider got as far as opening the
\* raw log), _should_fallback analyses the evidence and the fallback to the JS
\* fetcher is decided
ScrapyReturn(w, success, site_status, opened) ==
  /\ pc[w] = "scrapy"
  /\ LET j == wjob[w]
         file == IF raw[j] = NULL /\ opened THEN 0 ELSE raw[j]
         pages == IF file = NULL THEN 0 ELSE file
         take == /\ should_fallback(pages, site_status)
                 /\ fallback_allowed(wlocal[w].fallback_retry_count) IN
     /\ raw[j] # NULL => opened
     /\ jobs' = [jobs EXCEPT ![j] =
                   IF take
                   THEN [@ EXCEPT !.site_status = site_status,
                                  !.fallback_retry_count = 1,
                                  !.crawler_strategy = "scrapy_fallback_playwright"]
                   ELSE [@ EXCEPT !.site_status = site_status]]
     /\ raw' = [raw EXCEPT ![j] = IF take /\ file = NULL THEN 0 ELSE file]
     /\ wlocal' = [wlocal EXCEPT ![w].success = success, ![w].run_pages = 0]
     /\ pc' = [pc EXCEPT ![w] = IF take THEN "playwright" ELSE "finally"]
     /\ log' = (IF site_status \in {BLOCKED, THROTTLED, LOGIN_REQUIRED}
                THEN <<Event(j, "blocked_detected")>> ELSE << >>)
               \o (IF take THEN <<Event(j, "fallback_triggered")>> ELSE << >>)
  /\ UNCHANGED <<ts, expired, ip_usage, wjob, wfound, decrements, restart_events>>
  /\ UNCHANGED apiVars
  /\ UNCHANGED sideVars

\* _run_playwright: the crawl returns its own page count, which is stored as
\* pages_fetched; zero pages is a failure with reason blocked
PlaywrightReturn(w) ==
  /\ pc[w] = "playwright"
  /\ LET j == wjob[w]
         n == wlocal[w].run_pages IN
     /\ jobs' = [jobs EXCEPT ![j] =
                   IF n = 0
                   THEN [@ EXCEPT !.pages_fetched = n, !.last_error = BLOCKED]
                   ELSE [@ EXCEPT !.pages_fetched = n]]
     /\ ts' = [ts EXCEPT ![j] = Rose(@, jobs[j].pages_fetched, n)]
     /\ wlocal' = [wlocal EXCEPT ![w].success = (n # 0), ![w].run_pages = 0]
  /\ pc' = [pc EXCEPT ![w] = "finally"]
  /\ UNCHANGED <<expired, ip_usage, raw, wjob, wfound, decrements, restart_events>>
  /\ UNCHANGED apiVars
  /\ log' = << >>
  /\ UNCHANGED sideVars

\* run_job, the finally block and the read that follows it: heartbeat.stop(),
\* the final page count (written only when positive), job = get_job_by_id
Finally(w) ==
  /\ pc[w] = "finally"
  /\ LET j == wjob[w]
         final_pages == Lines(j) IN
     /\ jobs' = [jobs EXCEPT ![j] =
                   IF final_pages > 0 THEN [@ EXCEPT !.pages_fetched = final_pages]
                   ELSE @]
     /\ ts' = [ts EXCEPT ![j] = Rose(@, jobs[j].pages_fetched, final_pages)]
     /\ wlocal' = [wlocal EXCEPT ![w].state = jobs[j].state,
                                 ![w].success = (@ \/ cancellation_requested(j)),
                                 ![w].fallback_retry_count = 0]
  /\ pc' = [pc EXCEPT ![w] = "decide"]
  /\ UNCHANGED <<expired, ip_usage, raw, wjob, wfound, decrements, restart_events>>
  /\ UNCHANGED apiVars
  /\ log' = << >>
  /\ UNCHANGED sideVars

\* run_job, not success: FAILED and the counter released, only when the job
\* was read as RUNNING
RunnerFail(w) ==
  /\ pc[w] = "decide"
  /\ ~wlocal[w].success
  /\ LET j == wjob[w] IN
     IF wlocal[w].state = RUNNING
     THEN /\ jobs' = [jobs EXCEPT ![j] = FailedRow(@, UNKNOWN)]
          /\ ip_usage' = decrement_ip_concurrent(ip_usage, jobs[j].ip)
          /\ decrements' = [decrements EXCEPT ![j] = @ + 1]
          /\ UNCHANGED restart_events
          /\ log' = <<StateChange(j, jobs[j].state, FAILED)>>
     ELSE /\ UNCHANGED <<jobs, ip_usage, decrements, restart_events>>
          /\ log' = << >>
  /\ pc' = [pc EXCEPT ![w] = "detect"]
  /\ wjob' = [wjob EXCEPT ![w] = 0]
  /\ wlocal' = [wlocal EXCEPT ![w] = NoLocal]
  /\ UNCHANGED <<ts, expired, raw, wfound>>
  /\ UNCHANGED apiVars
  /\ UNCHANGED sideVars

\* ------------------------------------------------------ worker/finalizer.py

\* finalize_job: job = get_job_by_id; update_job_state(job_id, FINALIZING)
FinalizeStart(w) ==
  /\ pc[w] = "decide"
  /\ wlocal[w].success
  /\ jobs' = [jobs EXCEPT ![wjob[w]] = update_job_state(@, FINALIZING)]
  /\ pc' = [pc EXCEPT ![w] = "finalizing"]
  /\ wlocal' = [wlocal EXCEPT ![w] = NoLocal]
  /\ UNCHANGED <<ts, expired, ip_usage, raw, wjob, wfound, decrements, restart_events>>
  /\ UNCHANGED apiVars
  /\ log' = <<StateChange(wjob[w], jobs[wjob[w]].state, FINALIZING)>>
  /\ UNCHANGED sideVars

\* finalize_job, no raw file: DONE with pages_exported = 0 and an early return
FinalizeNoRaw(job) == [update_job_state(job, DONE) EXCEPT !.pages_exported = 0]

\* finalize_job, _deduplicate_pages raised: FAILED and an early return
FinalizeFailed(job) == FailedRow(job, "finalization_failed")

\* finalize_job, the normal end: DONE with pages_exported = total_deduped
FinalizeDone(job, deduped) ==
  [update_job_state(job, DONE) EXCEPT !.pages_exported = deduped]

\* the sizes _deduplicate_pages can return for a raw log of n records: one
\* record per canonical URL
Deduped(n) == IF n = 0 THEN {0} ELSE 1..n

\* whether finalize_job releases the requester's counter on this way out
Releases(outcome) == outcome = "done"

\* finalize_job with the steps after the deduplication outside any try block
finalize_job_uncaught(has_raw, io_error, late_error) ==
  IF ~has_raw THEN (IF late_error THEN "raised" ELSE "no_raw")
  ELSE IF io_error THEN "failed"
  ELSE IF late_error THEN "raised"
  ELSE "done"

\* finalize_job, the way it leaves: io_error says that _deduplicate_pages
\* raises, late_error that a write of the summary, of the knowledge base output
\* or of the artifact rows raises. _write_empty_summary is called outside any
\* try block; the steps after the deduplication are each inside one that logs
\* the error and goes on
finalize_job(has_raw, io_error, late_error) ==
  IF ~has_raw THEN (IF late_error THEN "raised" ELSE "no_raw")
  ELSE IF io_error THEN "failed"
  ELSE "done"

\* finalize_job from the raw-file check to its return, or to the exception
\* that the poll loop of main logs
FinalizeFinish(w, io_error, late_error, deduped) ==
  /\ pc[w] = "finalizing"
  /\ LET j == wjob[w]
         outcome == finalize_job(raw[j] # NULL, io_error, late_error) IN
     /\ deduped \in Deduped(Lines(j))
     /\ raw[j] = NULL => (~io_error /\ deduped = 0)
     /\ io_error => (deduped = Lines(j) /\ ~late_error)
     /\ jobs' = [jobs EXCEPT ![j] =
                   IF outcome = "raised" THEN @
                   ELSE IF outcome = "no_raw" THEN FinalizeNoRaw(@)
                   ELSE IF outcome = "failed" THEN FinalizeFailed(@)
                   ELSE FinalizeDone(@, deduped)]
     /\ IF Releases(outcome)
        THEN /\ ip_usage' = decrement_ip_concurrent(ip_usage, jobs[j].ip)
             /\ decrements' = [decrements EXCEPT ![j] = @ + 1]
             /\ UNCHANGED restart_events
        ELSE UNCHANGED <<ip_usage, decrements, restart_events>>
     /\ log' = IF outcome = "raised" THEN << >>
               ELSE IF outcome = "failed" THEN <<StateChange(j, jobs[j].state, FAILED)>>
               ELSE IF outcome = "no_raw" THEN <<StateChange(j, jobs[j].state, DONE)>>
               ELSE <<StateChange(j, jobs[j].state, DONE), Event(j, "finalize")>>
  /\ pc' = [pc EXCEPT ![w] = "detect"]
  /\ wjob' = [wjob EXCEPT ![w] = 0]
  /\ wlocal' = [wlocal EXCEPT ![w] = NoLocal]
  /\ UNCHANGED <<ts, expired, raw, wfound>>
  /\ UNCHANGED apiVars
  /\ UNCHANGED sideVars

\* ------------------------------------- cancellation (stuck_detector.py)

\* the cancellation ingress: the holder of the token cancels a RUNNING job
\* (RUNNING -> CANCELLED, a terminal state with finished_at set)
Cancel(j) ==
  /\ j \in JobIds
  /\ jobs[j].state = RUNNING
  /\ jobs' = [jobs EXCEPT ![j] = [update_job_state(@, CANCELLED) EXCEPT !.finished = TRUE]]
  /\ log' = <<StateChange(j, jobs[j].state, CANCELLED)>>
  /\ UNCHANGED <<ts, expired, ip_usage, raw, decrements, restart_events>>
  /\ UNCHANGED apiVars
  /\ UNCHANGED workerVars
  /\ UNCHANGED sideVars

\* the rows _handle_cancelled_jobs loops over: <<job id, pages_fetched,
\* pages_exported>> as get_jobs_by_state returned them
CancelledRows(S) == {<<j, jobs[j].pages_fetched, jobs[j].pages_exported>> : j \in S}

\* _handle_cancelled_jobs: cancelled_jobs = get_jobs_by_state(CANCELLED), for
\* a table that holds such rows
FindCancelled(w) ==
  /\ pc[w] = "detect"
  /\ get_jobs_by_state(CANCELLED) # {}
  /\ \A j \in JobIds : decrements[j] < MaxReleases
  /\ wfound' = [wfound EXCEPT ![w] = CancelledRows(get_jobs_by_state(CANCELLED))]
  /\ pc' = [pc EXCEPT ![w] = "cancelled"]
  /\ UNCHANGED <<jobs, ts, expired, ip_usage, raw, wjob, wlocal, decrements, restart_events>>
  /\ UNCHANGED apiVars
  /\ log' = << >>
  /\ UNCHANGED sideVars

\* what the loop body of _handle_cancelled_jobs does with a row
cancelled_branch(pages_fetched, pages_exported) ==
  IF pages_exported = 0 /\ pages_fetched > 0 THEN "finalize"
  ELSE IF pages_fetched = 0 THEN "release"
  ELSE "skip"

\* _handle_cancelled_jobs: one turn of the loop. A row with pages fetched and
\* none exported goes through finalize_job (an exception is logged), a row
\* with no page fetched has the counter of its requester decremented
HandleCancelled(w, io_error, late_error, deduped) ==
  /\ pc[w] = "cancelled"
  /\ wfound[w] # {}
  /\ LET row == Min(wfound[w])
         j == row[1]
         branch == cancelled_branch(row[2], row[3])
         outcome == finalize_job(raw[j] # NULL, io_error, late_error) IN
     /\ deduped \in Deduped(Lines(j))
     /\ raw[j] = NULL => (~io_error /\ deduped = 0)
     /\ io_error => (deduped = Lines(j) /\ ~late_error)
     /\ branch # "finalize" => (~io_error /\ ~late_error /\ deduped = Lines(j))
     /\ jobs' = [jobs EXCEPT ![j] =
                   IF branch # "finalize" THEN @
                   ELSE IF outcome = "raised" THEN update_job_state(@, FINALIZING)
                   ELSE IF outcome = "no_raw"
                   THEN FinalizeNoRaw(update_job_state(@, FINALIZING))
                   ELSE IF outcome = "failed"
                   THEN FinalizeFailed(update_job_state(@, FINALIZING))
                   ELSE FinalizeDone(update_job_state(@, FINALIZING), deduped)]
     /\ IF branch = "release" \/ (branch = "finalize" /\ Releases(outcome))
        THEN /\ ip_usage' = decrement_ip_concurrent(ip_usage, jobs[j].ip)
             /\ decrements' = [decrements EXCEPT ![j] = @ + 1]
        ELSE UNCHANGED <<ip_usage, decrements>>
     /\ log' = IF branch # "finalize" THEN << >>
               ELSE <<StateChange(j, jobs[j].state, FINALIZING)>> \o
                    (IF outcome = "raised" THEN << >>
                     ELSE IF outcome = "failed"
                     THEN <<StateChange(j, FINALIZING, FAILED)>>
                     ELSE IF outcome = "no_raw"
                     THEN <<StateChange(j, FINALIZING, DONE)>>
                     ELSE <<StateChange(j, FINALIZING, DONE), Event(j, "finalize")>>)
     /\ wfound' = [wfound EXCEPT ![w] = @ \ {row}]
  /\ UNCHANGED <<ts, expired, raw, pc, wjob, wlocal, restart_events>>
  /\ UNCHANGED apiVars
  /\ UNCHANGED sideVars

\* ------------------------------------------------------------- environment

\* a worker process is killed while it runs a job (its heartbeat thread with
\* it) and a new one is started at the top of the poll loop; a kill between
\* the reads of the poll loop leaves no trace in the tables
Crash(w) ==
  /\ pc[w] \in {"start", "scrapy", "playwright", "finally", "decide", "finalizing"}
  /\ pc' = [pc EXCEPT ![w] = "detect"]
  /\ wjob' = [wjob EXCEPT ![w] = 0]
  /\ wlocal' = [wlocal EXCEPT ![w] = NoLocal]
  /\ wfound' = [wfound EXCEPT ![w] = {}]
  /\ UNCHANGED <<jobs, ts, expired, ip_usage, raw, decrements, restart_events>>
  /\ UNCHANGED apiVars
  /\ log' = << >>
  /\ UNCHANGED sideVars

\* where a worker spends time: asleep between polls, in a crawl, in the
\* finalizer's file work; elsewhere it is between two statements
Waiting(w) == pc[w] \in {"detect", "scrapy", "playwright", "finalizing"}

\* a heartbeat thread is beating for job j
Beating(j) == \E w \in Workers : HeartbeatAlive(w) /\ wjob[w] = j

\* the timestamps of job j once d seconds have passed: a live heartbeat thread
\* has beaten within the last HEARTBEAT_INTERVAL_SECONDS of them
Aged(j, d) ==
  IF Beating(j) /\ HEARTBEAT_INTERVAL_SECONDS <= ORPHANED_THRESHOLD_SECONDS
  THEN [BeatTs(ts[j])
          EXCEPT !.started = Older(@, d),
                 !.rose = IF Lines(j) > jobs[j].pages_fetched THEN 0 ELSE Older(@, d)]
  ELSE [hb |-> Older(ts[j].hb, d), progress |-> Older(ts[j].progress, d),
        started |-> Older(ts[j].started, d), rose |-> Older(ts[j].rose, d)]

\* d seconds pass while no worker is between two statements; the beats of the
\* live heartbeat threads refresh the page counts
Tick(d) ==
  /\ \A w \in Workers : Waiting(w)
  /\ \E j \in JobIds : ts[j] # Aged(j, d)
  /\ ts' = [j \in JobIds |-> Aged(j, d)]
  /\ jobs' = [j \in JobIds |->
                IF Beating(j) THEN update_heartbeat(jobs[j], Lines(j)) ELSE jobs[j]]
  /\ UNCHANGED <<expired, ip_usage, raw, decrements, restart_events>>
  /\ UNCHANGED apiVars
  /\ UNCHANGED workerVars
  /\ log' = << >>
  /\ UNCHANGED sideVars

\* ------------------------------------------------------------ specification

\* what a submitted job asks for: <<use_js, start_url>>
AllInputs == {<<FALSE, "docs">>, <<TRUE, "docs">>, <<FALSE, "spa">>, <<TRUE, "spa">>}
StaticInputs == {<<FALSE, "docs">>}

ApiNext(limit, reqs, ips, inputs) ==
  \/ \E r \in reqs, ip \in ips : PostCheck(r, ip, limit)
  \/ \E r \in reqs, in \in inputs : PostCreate(r, in[1], in[2])
  \/ \E r \in reqs : PostInvalid(r)
  \/ \E r \in reqs : PostIncrement(r)

ExpiryNext ==
  \/ \E j \in JobIds : ExpiryPasses(j)
  \/ \E j \in JobIds : GetStatusExpire(j)

DetectorNext(w) ==
  \/ FindOrphaned(w)
  \/ HandleStuck(w)
  \/ FindStalled(w)
  \/ FindHardStalled(w)
  \/ HandleHardStalled(w)

\* statuses: the site statuses the evidence of a static crawl can amount to;
\* faults: whether the spider can die before it opens the raw log and the
\* finalizer's file work can raise
RunNext(w, statuses, faults) ==
  \/ NextQueued(w)
  \/ Lease(w)
  \/ StartCrawl(w)
  \/ FetchPage(w)
  \/ \E success \in BOOLEAN, site_status \in statuses, opened \in {TRUE, ~faults} :
        ScrapyReturn(w, success, site_status, opened)
  \/ PlaywrightReturn(w)
  \/ Finally(w)
  \/ RunnerFail(w)
  \/ FinalizeStart(w)
  \/ \E io_error, late_error \in {FALSE, faults}, deduped \in 0..MaxLines :
        FinalizeFinish(w, io_error, late_error, deduped)

WorkerNext(w, statuses, faults) ==
  DetectorNext(w) \/ RunNext(w, statuses, faults) \/ Heartbeat(w)

\* ------------------------------------------- crawler/blocking_signals.py

StatusCodes == {200, 403, 429}
TextHashes == {"sha256:a", "sha256:b"}

\* a key of a Python dict or of a JSON object: the int n, or the str "n"
IntKey(n) == [type |-> "int", value |-> n]
StrKey(n) == [type |-> "str", value |-> n]

\* dict.get(key, default)
Get(d, key, default) == IF key \in DOMAIN d THEN d[key] ELSE default

\* d[key] = d.get(key, 0) + 1
Incr(d, key) ==
  [k \in DOMAIN d \cup {key} |-> IF k = key THEN Get(d, key, 0) + 1 ELSE d[k]]

RECURSIVE SumValues(_)
\* sum(d.values())
SumValues(d) ==
  IF DOMAIN d = {} THEN 0
  ELSE LET k == CHOOSE k \in DOMAIN d : TRUE IN
       d[k] + SumValues([x \in DOMAIN d \ {k} |-> d[x]])

\* BlockingSignalTracker.record_response: captcha, waf, login say whether the
\* body matches a captcha pattern, a WAF pattern, a meta refresh to a login path
record_response(t, status_code, captcha, waf, login) ==
  [t EXCEPT !.total_responses = @ + 1,
            !.status_codes = Incr(@, IntKey(status_code)),
            !.captcha_hits = IF captcha THEN @ + 1 ELSE @,
            !.waf_hits = IF waf THEN @ + 1 ELSE @,
            !.login_redirects = IF login THEN @ + 1 ELSE @]

\* BlockingSignalTracker.get_duplicate_ratio, rounded to three places: in
\* thousandths
get_duplicate_ratio(t) ==
  LET total == SumValues(t.text_hashes)
      unique == Cardinality(DOMAIN t.text_hashes) IN
  IF total = 0 THEN 0
  ELSE (2000 * (total - unique) + total) \div (2 * total)

\* BlockingSignalTracker.get_evidence
get_evidence(t) ==
  [total_responses |-> t.total_responses, status_codes |-> t.status_codes,
   captcha_hits |-> t.captcha_hits, waf_hits |-> t.waf_hits,
   login_redirects |-> t.login_redirects,
   duplicate_ratio |-> get_duplicate_ratio(t)]

\* json.dump followed by json.load: the keys of an object are strings, an int
\* key is written as its decimal string
json_round_trip(evidence) ==
  [evidence EXCEPT !.status_codes =
     [k \in {StrKey(i.value) : i \in DOMAIN @} |->
        SumValues([i \in {x \in DOMAIN @ : x.value = k.value} |-> @[i]])]]

\* ------------------------------------------- worker/blocking_detector.py

Verdict(site_status, signals) ==
  [site_status |-> site_status, signals_detected |-> signals]

\* analyze_blocking_signals(job_id, tracker_evidence)
analyze_blocking_signals(tracker_evidence) ==
  LET total_responses == Get(tracker_evidence, "total_responses", 0)
      status_codes == Get(tracker_evidence, "status_codes", EmptyDict)
      captcha_hits == Get(tracker_evidence, "captcha_hits", 0)
      waf_hits == Get(tracker_evidence, "waf_hits", 0)
      login_redirects == Get(tracker_evidence, "login_redirects", 0)
      duplicate_ratio == Get(tracker_evidence, "duplicate_ratio", 0)
      count_429 == Get(status_codes, IntKey(429), 0)
      count_403 == Get(status_codes, IntKey(403), 0) IN
  IF total_responses = 0 THEN Verdict(UNKNOWN, << >>)
  ELSE IF captcha_hits > 0 \/ waf_hits > 0
  THEN Verdict(BLOCKED, <<"captcha_detected">>)
  ELSE IF 2 * login_redirects > total_responses
  THEN Verdict(LOGIN_REQUIRED, <<"login_redirect">>)
  ELSE IF 100 * count_429 >= BLOCKING_429_THRESHOLD * total_responses
  THEN Verdict(THROTTLED, <<"excessive_429">>)
  ELSE IF 100 * count_403 >= BLOCKING_403_THRESHOLD * total_responses
  THEN Verdict(BLOCKED, <<"excessive_403">>)
  ELSE IF duplicate_ratio >= 10 * DUPLICATE_HASH_THRESHOLD
  THEN Verdict(BLOCKED, <<"duplicate_content_high">>)
  ELSE Verdict(NORMAL, << >>)

\* --------------------------------------------- one static crawl, followed

\* BlockingSignalMiddleware.process_response
RecordResponse(status_code, captcha, waf, login) ==
  /\ evidence_file = NoFile /\ verdict = NoVerdict
  /\ tracker.total_responses < MaxResponses
  /\ tracker' = record_response(tracker, status_code, captcha, waf, login)
  /\ UNCHANGED <<evidence_file, verdict>>
  /\ UNCHANGED <<lifeVars, contentVars, moreVars>>

\* BlockingDetectionPipeline.process_item: the text hash of an item is tallied
TallyHash(text_hash) ==
  /\ evidence_file = NoFile /\ verdict = NoVerdict
  /\ SumValues(tracker.text_hashes) < Get(tracker.status_codes, IntKey(200), 0)
  /\ tracker' = [tracker EXCEPT !.text_hashes = Incr(@, text_hash)]
  /\ UNCHANGED <<evidence_file, verdict>>
  /\ UNCHANGED <<lifeVars, contentVars, moreVars>>

\* BlockingSignalMiddleware.spider_closed
SpiderClosed ==
  /\ evidence_file = NoFile /\ verdict = NoVerdict
  /\ evidence_file' = json_round_trip(get_evidence(tracker))
  /\ UNCHANGED <<tracker, verdict>>
  /\ UNCHANGED <<lifeVars, contentVars, moreVars>>

\* _should_fallback: the evidence file is read when it exists (a spider that
\* died never wrote it), analysed, and the fallback is decided with the pages
\* counted in the raw log
ShouldFallback(pages) ==
  /\ verdict = NoVerdict
  /\ pages <= SumValues(tracker.text_hashes)
  /\ LET tracker_evidence == IF evidence_file = NoFile THEN EmptyDict
                             ELSE evidence_file
         found == analyze_blocking_signals(tracker_evidence) IN
     verdict' = [site_status |-> found.site_status,
                 signals_detected |-> found.signals_detected,
                 tracker_evidence |-> tracker_evidence,
                 pages |-> pages,
                 fallback |-> should_fallback(pages, found.site_status)]
  /\ UNCHANGED <<tracker, evidence_file>>
  /\ UNCHANGED <<lifeVars, contentVars, moreVars>>

NextDetect ==
  \/ \E status_code \in StatusCodes, captcha, waf, login \in BOOLEAN :
        RecordResponse(status_code, captcha, waf, login)
  \/ \E text_hash \in TextHashes : TallyHash(text_hash)
  \/ SpiderClosed
  \/ \E pages \in 0..MaxResponses : ShouldFallback(pages)

SpecDetect == Init /\ [][NextDetect]_vars

\* ------------------------------------------------- crawler/middlewares.py

\* the status codes a host answers with, and its Retry-After headers in
\* seconds (NULL: no header)
HostStatuses == {200, 301, 404, 429, 503}
RetryAfters == {NULL, 30, 120}

Maximum(a, b) == IF a >= b THEN a ELSE b
Minimum(a, b) == IF a <= b THEN a ELSE b

\* process_response, the Retry-After header of a 429/503:
\* host_delays[host] = max(host_delays[host], retry_seconds)
retry_after_delay(delay, retry_after) ==
  IF retry_after = NULL THEN delay
  ELSE Maximum(delay, 1000 * retry_after)

\* process_response, 429/503: min(old_delay * BACKOFF_FACTOR, MAX_DELAY)
backoff(old_delay) == Minimum(old_delay * BACKOFF_FACTOR, MAX_DELAY)

\* process_response, 2xx/3xx: max(old_delay * RECOVERY_RATE, INITIAL_DELAY)
\* when the delay is above INITIAL_DELAY (to the millisecond)
recover(old_delay) ==
  IF old_delay > INITIAL_DELAY
  THEN Maximum((old_delay * RECOVERY_RATE) \div 10, INITIAL_DELAY)
  ELSE old_delay

\* process_request: with the breaker of the host active the request is marked
\* in its meta and None is returned; else the delay is slept (at most 5 s) and
\* None is returned. None makes Scrapy go on with the request: the value is the
\* request as the downloader gets it
process_request(breaker_active) ==
  [host |-> "h", throttle_breaker |-> breaker_active]

\* AdaptiveThrottleMiddleware.process_request for a request to the host
ProcessRequest ==
  /\ sent = NoSent
  /\ throttle.responses < MaxThrottled
  /\ sent' = process_request(throttle.breaker_open)
  /\ UNCHANGED throttle
  /\ UNCHANGED <<lifeVars, detectVars, contentVars, urlVars, getVars, identityVars>>

\* AdaptiveThrottleMiddleware.process_response for the response to the
\* request that was sent
ProcessResponse(status, retry_after) ==
  /\ sent # NoSent
  /\ status \notin {429, 503} => retry_after = NULL
  /\ throttle' =
       IF status \in {429, 503}
       THEN [throttle EXCEPT
               !.failures = @ + 1,
               !.delay = retry_after_delay(backoff(@), retry_after),
               !.breaker_open = (@ \/ throttle.failures + 1 >= FAILURE_THRESHOLD),
               !.tripped = (throttle.failures + 1 >= FAILURE_THRESHOLD),
               !.streak = @ + 1,
               !.responses = @ + 1]
       ELSE IF 200 <= status /\ status < 400
       THEN [throttle EXCEPT !.delay = recover(@), !.failures = 0,
                             !.tripped = FALSE,
                             !.streak = 0, !.responses = @ + 1]
       ELSE [throttle EXCEPT !.tripped = FALSE, !.streak = 0, !.responses = @ + 1]
  /\ sent' = NoSent
  /\ UNCHANGED <<lifeVars, detectVars, contentVars, urlVars, getVars, identityVars>>

\* BREAKER_RESET_TIME seconds pass with no response from the host:
\* time.time() is past host_breaker_until[host]
BreakerTimeout ==
  /\ throttle.breaker_open
  /\ sent = NoSent
  /\ throttle' = [throttle EXCEPT !.breaker_open = FALSE]
  /\ UNCHANGED sent
  /\ UNCHANGED <<lifeVars, detectVars, contentVars, urlVars, getVars, identityVars>>

NextThrottle ==
  \/ ProcessRequest
  \/ \E status \in HostStatuses, retry_after \in RetryAfters :
        ProcessResponse(status, retry_after)
  \/ BreakerTimeout

SpecThrottle == Init /\ [][NextThrottle]_vars

\* ------------------------------------------------- crawler/url_utils.py

\* the tracking parameters the inputs use (of TRACKING_PARAMS)
TRACKING_PARAMS == {"utm_source", "ref"}

\* str.lower on the strings the inputs use
Lower(s) ==
  CASE s = "HTTP" -> "http"
    [] s = "HTTPS" -> "https"
    [] s = "H" -> "h"
    [] OTHER -> s

\* strip_tracking_params: a URL without a query is returned as it is; else the
\* tracking parameters and the fragment are removed
strip_tracking_params(url) ==
  IF url.query = {} THEN url
  ELSE [url EXCEPT !.query = {k \in @ : Lower(k) \notin TRACKING_PARAMS},
                   !.fragment = ""]

RECURSIVE collapse_slashes(_)
\* re.sub(r'/+', '/', path)
collapse_slashes(path) ==
  IF Len(path) < 2 THEN path
  ELSE LET rest == collapse_slashes(Tail(path)) IN
       IF Head(path) = "/" /\ Head(rest) = "/" THEN rest
       ELSE <<Head(path)>> \o rest

\* path.endswith('/index.html') or path.endswith('/index.htm')
endswith_index(path) ==
  /\ Len(path) >= 2
  /\ path[Len(path)] \in {"index.html", "index.htm"}
  /\ path[Len(path) - 1] = "/"

RECURSIVE rstrip_slash(_)
\* path.rstrip('/')
rstrip_slash(path) ==
  IF path # << >> /\ path[Len(path)] = "/"
  THEN rstrip_slash(SubSeq(path, 1, Len(path) - 1))
  ELSE path

\* canonicalize_url
canonicalize_url(url) ==
  LET parsed == strip_tracking_params(url)
      scheme == Lower(parsed.scheme)
      host == Lower(parsed.host)
      port == IF \/ scheme = "http" /\ parsed.port = "80"
                 \/ scheme = "https" /\ parsed.port = "443"
              THEN "" ELSE parsed.port
      path0 == IF parsed.path = << >> THEN <<"/">> ELSE parsed.path
      path1 == collapse_slashes(path0)
      \* path.rsplit('/', 1)[0] + '/': all up to the last slash, with it
      path2 == IF endswith_index(path1) THEN SubSeq(path1, 1, Len(path1) - 1)
               ELSE path1
      path3 == IF path2 # <<"/">> /\ path2[Len(path2)] = "/"
               THEN rstrip_slash(path2) ELSE path2
      path4 == IF path3 = << >> THEN <<"/">> ELSE path3
  IN  Url(scheme, host, port, path4, parsed.query, "")

\* the pages of the crawled site: /a, /a#top and /b
Urls == {Url("http", "h", "", <<"/", "a">>, {}, ""),
         Url("http", "h", "", <<"/", "a">>, {}, "top"),
         Url("http", "h", "", <<"/", "b">>, {}, "")}

\* the links a page may hold
PathPieces == {"/", "a", "index.html", "index.htm"}
Paths ==
  {<< >>} \cup {path \in UNION {[1..n -> PathPieces] : n \in 1..MaxPath} :
                 path[1] = "/"}
Links ==
  {Url(scheme, host, port, path, query, fragment) :
     scheme \in {"http", "HTTPS"}, host \in {"h", "H"},
     port \in {"", "80", "443"}, path \in Paths,
     query \in SUBSET {"id", "utm_source"}, fragment \in {"", "top"}}

\* DocsSpider.parse_page, PlaywrightCrawler._crawl_page:
\* link_canonical = canonicalize_url(link_url)
Canonicalize ==
  /\ link_canonical = NoUrl
  /\ link_canonical' = canonicalize_url(href)
  /\ UNCHANGED href
  /\ UNCHANGED <<lifeVars, detectVars, contentVars, getVars, crawlVars>>

InitUrl ==
  /\ LifeInit
  /\ DetectInit
  /\ ContentInit
  /\ href \in Links
  /\ link_canonical = NoUrl
  /\ GetInit
  /\ CrawlInit

SpecUrl == InitUrl /\ [][Canonicalize]_vars

\* the normalized text a URL serves, as TextExtractionPipeline._compute_hash
\* hashes it: a fragment does not change the page
content_hash(url) == canonicalize_url(url)

\* ------------------------------ crawler/pipelines.py, db/frontier.py

\* find_document_by_content: fetchone of SELECT * FROM documents WHERE
\* job_id = ? AND content_hash = ?; the id of the first such row, 0 for None
find_document_by_content(hash) ==
  IF \E d \in 1..Len(doc_rows) : doc_rows[d].content_hash = hash
  THEN doc_rows[CHOOSE d \in 1..Len(doc_rows) :
                  /\ doc_rows[d].content_hash = hash
                  /\ \A c \in 1..(d - 1) : doc_rows[c].content_hash # hash].id
  ELSE 0

\* add_document_url: the row it inserts
DocumentUrl(document_id, url, match_reason, is_primary) ==
  [document_id |-> document_id, url |-> url, match_reason |-> match_reason,
   is_primary |-> is_primary]

\* create_document: the row it inserts, under a fresh id
Document(url, hash) ==
  [id |-> Len(doc_rows) + 1, content_hash |-> hash, primary_url |-> url]

\* the item as it leaves DocumentIdentityPipeline.process_item
Item(url, text_hash, document_id, is_duplicate) ==
  [url |-> url, text_hash |-> text_hash, document_id |-> document_id,
   is_duplicate |-> is_duplicate]

\* DocumentIdentityPipeline.process_item, to the return of
\* find_document_by_content: content_hash is text_hash without its prefix
FindDocument(p, url, text_hash) ==
  /\ pitem[p] = NoItem
  /\ Len(items) + Cardinality({q \in Fetchers : pitem[q] # NoItem}) < MaxItems
  /\ pitem' = [pitem EXCEPT ![p] =
                 [url |-> url, text_hash |-> text_hash,
                  existing_doc |-> find_document_by_content(text_hash)]]
  /\ UNCHANGED <<doc_rows, url_rows, items>>
  /\ UNCHANGED <<lifeVars, detectVars, contentVars, urlVars, getVars, throttleVars>>

\* DocumentIdentityPipeline.process_item, from there on: on a hit the URL is
\* added as an alias of the document found, on a miss create_document inserts
\* the document and its primary URL
AssignDocument(p) ==
  /\ pitem[p] # NoItem
  /\ LET item == pitem[p] IN
     IF item.existing_doc # 0
     THEN /\ url_rows' = Append(url_rows, DocumentUrl(item.existing_doc, item.url,
                                                      "content_hash", FALSE))
          /\ items' = Append(items, Item(item.url, item.text_hash,
                                         item.existing_doc, TRUE))
          /\ UNCHANGED doc_rows
     ELSE LET doc == Document(item.url, item.text_hash) IN
          /\ doc_rows' = Append(doc_rows, doc)
          /\ url_rows' = Append(url_rows, DocumentUrl(doc.id, item.url,
                                                      "canonical", TRUE))
          /\ items' = Append(items, Item(item.url, item.text_hash, doc.id, FALSE))
  /\ pitem' = [pitem EXCEPT ![p] = NoItem]
  /\ UNCHANGED <<lifeVars, detectVars, contentVars, urlVars, getVars, throttleVars>>

NextIdentity ==
  \/ \E p \in Fetchers, url \in Urls, text_hash \in TextHashes :
        FindDocument(p, url, text_hash)
  \/ \E p \in Fetchers : AssignDocument(p)

SpecIdentity == Init /\ [][NextIdentity]_vars

\* ------------------------------------------------- worker/finalizer.py

Titles == <<"T1", "T2", "T3">>

\* a line of pages.raw.jsonl (JSONLWriterPipeline.process_item)
Record(url, canonical_url, title, quality_passed, is_duplicate) ==
  [url |-> url, canonical_url |-> canonical_url, title |-> title,
   quality_passed |-> quality_passed, is_duplicate |-> is_duplicate]

\* _deduplicate_pages: record.get('canonical_url') or canonicalize_url(url)
CanonicalKey(record) ==
  IF record.canonical_url # NoUrl THEN record.canonical_url
  ELSE canonicalize_url(record.url)

\* d.setdefault(key, line): an entry is never replaced
DictSetDefault(d, key, line) ==
  IF \E i \in 1..Len(d) : d[i].key = key THEN d
  ELSE Append(d, [key |-> key, line |-> line])

\* pages_by_canonical[canonical] = line, on a dict that keeps its keys in the
\* order they were first inserted
DictSet(d, key, line) ==
  IF \E i \in 1..Len(d) : d[i].key = key
  THEN [i \in 1..Len(d) |-> IF d[i].key = key THEN [key |-> key, line |-> line]
                            ELSE d[i]]
  ELSE Append(d, [key |-> key, line |-> line])

RECURSIVE pages_by_canonical(_)
\* _deduplicate_pages, the loop over the lines of the raw file
pages_by_canonical(lines) ==
  IF lines = << >> THEN << >>
  ELSE LET line == lines[Len(lines)] IN
       DictSet(pages_by_canonical(SubSeq(lines, 1, Len(lines) - 1)),
               CanonicalKey(line), line)

\* _deduplicate_pages: the lines written to pages.jsonl
deduplicate_pages(lines) ==
  LET d == pages_by_canonical(lines) IN [i \in 1..Len(d) |-> d[i].line]

\* finalize_job, for a job whose fetcher has ended: pages.jsonl is written
Deduplicate ==
  /\ ~spider.open
  /\ ~pages_jsonl.exists
  /\ raw_log # << >>
  /\ pages_jsonl' = [exists |-> TRUE, lines |-> deduplicate_pages(raw_log)]
  /\ UNCHANGED <<raw_log, spider, documents>>
  /\ UNCHANGED <<lifeVars, detectVars, moreVars>>

\* the raw logs the finalizer may find
RawRecords ==
  UNION {{Record(url, canonical_url, Titles[t], TRUE, FALSE) :
            canonical_url \in {NoUrl, canonicalize_url(url)}, t \in 1..Len(Titles)} :
         url \in Urls}

RawLogs == UNION {[1..n -> RawRecords] : n \in 0..MaxRaw}

InitDedup ==
  /\ LifeInit
  /\ DetectInit
  /\ raw_log \in RawLogs
  /\ pages_jsonl = NoPages
  /\ spider = NoSpider
  /\ documents = {}
  /\ MoreInit

SpecDedup == InitDedup /\ [][Deduplicate]_vars

\* ------------------------------- crawler/spider.py, crawler/pipelines.py

\* a static fetcher process starts for the job, for its first run or after a
\* restart: DocsSpider.__init__, BudgetControlPipeline.__init__ and
\* JSONLWriterPipeline.open_spider (the raw log is opened for appending)
OpenSpider ==
  /\ ~spider.open
  /\ ~pages_jsonl.exists
  /\ spider.runs <= MAX_RESTARTS
  /\ spider' = [open |-> TRUE, pages_fetched |-> 0, seen_urls |-> {},
                quality_pages_count |-> 0, runs |-> spider.runs + 1,
                reason |-> "-"]
  /\ UNCHANGED <<raw_log, pages_jsonl, documents>>
  /\ UNCHANGED <<lifeVars, detectVars, moreVars>>

\* DocsSpider.parse_page gets the response for url, and the item goes through
\* QualityGatePipeline (quality_passed), DocumentIdentityPipeline,
\* BudgetControlPipeline and JSONLWriterPipeline
ParsePage(url, quality_passed) ==
  /\ spider.open
  /\ IF spider.pages_fetched >= max_pages
     THEN /\ spider' = [spider EXCEPT !.open = FALSE,
                                      !.reason = "max_pages_reached"]
          /\ UNCHANGED <<raw_log, documents>>
     ELSE LET canonical == canonicalize_url(url)
              is_duplicate == content_hash(url) \in documents
              counts == quality_passed /\ ~is_duplicate
              quality == spider.quality_pages_count + (IF counts THEN 1 ELSE 0) IN
          /\ canonical \notin spider.seen_urls
          /\ spider' = [spider EXCEPT !.seen_urls = @ \cup {canonical},
                                      !.pages_fetched = @ + 1,
                                      !.quality_pages_count = quality,
                                      !.open = quality < max_pages,
                                      !.reason = IF quality < max_pages THEN "-"
                                                 ELSE "quality_budget_reached"]
          /\ documents' = documents \cup {content_hash(url)}
          /\ raw_log' = Append(raw_log, Record(url, canonical, Titles[spider.runs],
                                               quality_passed, is_duplicate))
  /\ UNCHANGED pages_jsonl
  /\ UNCHANGED <<lifeVars, detectVars, moreVars>>

\* the fetcher process ends: the crawl has nothing left to fetch, it reaches
\* its timeout, or it is killed
CloseSpider ==
  /\ spider.open
  /\ spider' = [spider EXCEPT !.open = FALSE, !.reason = "finished"]
  /\ UNCHANGED <<raw_log, pages_jsonl, documents>>
  /\ UNCHANGED <<lifeVars, detectVars, moreVars>>

NextBudget ==
  \/ OpenSpider
  \/ \E url \in Urls, quality_passed \in BOOLEAN : ParsePage(url, quality_passed)
  \/ CloseSpider
  \/ Deduplicate

SpecBudget == Init /\ [][NextBudget]_vars

\* ------------------------------------------------------ api/routes/jobs.py
\* The per-job GET endpoints: status, the two downloads and the page list.

Endpoints == {"status", "pages.jsonl", "summary.json", "pages"}

\* an id that no row of the jobs table has
UnknownJob == 0

\* generate_token: the token create_job returned for job j, and a token
\* that was issued for no job
Token(j) == <<"token", j>>
OtherToken == <<"token", 0>>
NoToken == <<"token", -1>>

\* hash_token: SHA-256, on tokens this short without collisions
hash_token(token) == <<"sha256", token>>

\* the token_hash column of row j, written once by create_job
token_hash(j) == hash_token(Token(j))

\* get_job_by_id in the place of get_job_for_auth
get_job_for_auth_no_token(job_id, token_hashed) ==
  IF job_id \in JobIds THEN job_id ELSE UnknownJob

\* get_job_for_auth: SELECT ... WHERE id = ? AND token_hash = ?; UnknownJob
\* stands for None
get_job_for_auth(job_id, token_hashed) ==
  IF job_id \in JobIds /\ token_hash(job_id) = token_hashed THEN job_id
  ELSE UnknownJob

\* jsonify({"error": ..., "message": ...}), code
ErrorReply(code, error, message) ==
  [code |-> code, error |-> error, message |-> message, state |-> "-", file |-> "-"]

Unauthorized == ErrorReply(401, "Unauthorized", "Token is required")
NotFound == ErrorReply(404, "Not Found", "Job not found or invalid token")
Gone == ErrorReply(410, "Gone", "Job has expired")

\* the download handlers without their test of the state
download_any_state(j, name, exists) ==
  IF ~exists THEN ErrorReply(404, "Not Found", "file not found")
  ELSE [code |-> 200, error |-> "-", message |-> "-", state |-> "-", file |-> name]

\* download_pages, download_summary once the job row j is found: exists is
\* os.path.exists(file_path)
download(j, name, exists) ==
  IF jobs[j].state = EXPIRED THEN Gone
  ELSE IF jobs[j].state # DONE
  THEN ErrorReply(400, "Bad Request", "Job is not complete")
  ELSE IF ~exists THEN ErrorReply(404, "Not Found", "file not found")
  ELSE [code |-> 200, error |-> "-", message |-> "-", state |-> "-", file |-> name]

\* get_job_status, list_pages once the job row j is found: the body shows the
\* state of the row as it was read
JobReply(j) ==
  [code |-> 200, error |-> "-", message |-> "-", state |-> jobs[j].state, file |-> "-"]

\* whether get_job_status takes its expiry branch for the row it found
Expires(endpoint, j) ==
  /\ endpoint = "status"
  /\ j # UnknownJob
  /\ jobs[j].state # EXPIRED
  /\ j \in expired

\* the response of the handler of endpoint to a request for job_id with token
Response(endpoint, job_id, token, exists) ==
  LET j == get_job_for_auth(job_id, hash_token(token)) IN
  IF token = NoToken THEN Unauthorized
  ELSE IF j = UnknownJob THEN NotFound
  ELSE IF Expires(endpoint, j) THEN Gone
  ELSE IF endpoint \in {"pages.jsonl", "summary.json"} THEN download(j, endpoint, exists)
  ELSE IF jobs[j].state = EXPIRED THEN Gone
  ELSE JobReply(j)

\* get_job_status, download_pages, download_summary, list_pages: one handler
\* from the request to its return
GetJob(endpoint, job_id, token, exists) ==
  LET j == get_job_for_auth(job_id, hash_token(token)) IN
  /\ reply = NoReply
  /\ request' = [endpoint |-> endpoint, job_id |-> job_id, token |-> token]
  /\ reply' = Response(endpoint, job_id, token, exists)
  /\ IF token # NoToken /\ Expires(endpoint, j)
     THEN /\ jobs' = [jobs EXCEPT ![j] = update_job_state(@, EXPIRED)]
          /\ log' = <<StateChange(j, jobs[j].state, EXPIRED)>>
     ELSE /\ UNCHANGED jobs
          /\ log' = << >>
  /\ UNCHANGED <<ts, expired, ip_usage, raw, decrements, restart_events>>
  /\ UNCHANGED apiVars
  /\ UNCHANGED workerVars
  /\ UNCHANGED <<detectVars, contentVars, urlVars, crawlVars>>

\* the response has been sent
GetReturn ==
  /\ reply # NoReply
  /\ request' = NoRequest
  /\ reply' = NoReply
  /\ log' = << >>
  /\ UNCHANGED <<jobs, ts, expired, ip_usage, raw, decrements, restart_events>>
  /\ UNCHANGED apiVars
  /\ UNCHANGED workerVars
  /\ UNCHANGED <<detectVars, contentVars, urlVars, crawlVars>>

\* One worker process (killed and started again at any time), one client
Next ==
  \/ ApiNext(MaxJobs, {1}, {"ipA"}, AllInputs)
  \/ ExpiryNext
  \/ WorkerNext(1, {NORMAL, BLOCKED}, TRUE)
  \/ Crash(1)
  \/ \E d \in Durations : Tick(d)

Spec == Init /\ [][Next]_vars

\* N workers polling the same jobs table, from the moment MaxJobs requests for
\* static crawls have been answered; the jobs do not expire while they are
\* worked on
InitN ==
  /\ SideInit
  /\ jobs = [j \in 1..MaxJobs |-> NewJob("ipA", FALSE, "docs")]
  /\ ts = [j \in 1..MaxJobs |-> NewTs]
  /\ expired = {}
  /\ ip_usage = [i \in IPs |-> IF i = "ipA" THEN MaxJobs ELSE 0]
  /\ raw = [j \in 1..MaxJobs |-> NULL]
  /\ rpc = [r \in Requests |-> "idle"]
  /\ rip = [r \in Requests |-> "ipA"]
  /\ resp = [r \in Requests |-> NoResp]
  /\ pc = [w \in Workers |-> "detect"]
  /\ wjob = [w \in Workers |-> 0]
  /\ wlocal = [w \in Workers |-> NoLocal]
  /\ wfound = [w \in Workers |-> {}]
  /\ decrements = [j \in 1..MaxJobs |-> 0]
  /\ restart_events = [j \in 1..MaxJobs |-> 0]
  /\ log = << >>

NextN ==
  \/ \E w \in Workers : WorkerNext(w, {NORMAL}, FALSE)
  \/ \E w \in Mortal : Crash(w)
  \/ \E d \in Durations : Tick(d)

SpecN == InitN /\ [][NextN]_vars

\* a row of the jobs table in state s, as update_job_state leaves it
JobRow(s) ==
  [NewJob("ipA", FALSE, "docs") EXCEPT !.state = s,
                                       !.started = s # QUEUED,
                                       !.finished = s \in TERMINAL]

\* The jobs table as a client may find it: every job in any state, the first
\* few past their expires_at
InitGet ==
  /\ SideInit
  /\ jobs \in [1..MaxJobs -> {JobRow(s) : s \in JobStates \ {CANCELLED}}]
  /\ ts = [j \in 1..MaxJobs |-> NewTs]
  /\ expired \in {1..n : n \in 0..MaxJobs}
  /\ ip_usage = [i \in IPs |-> 0]
  /\ raw = [j \in 1..MaxJobs |-> NULL]
  /\ rpc = [r \in Requests |-> "idle"]
  /\ rip = [r \in Requests |-> "ipA"]
  /\ resp = [r \in Requests |-> NoResp]
  /\ pc = [w \in Workers |-> "detect"]
  /\ wjob = [w \in Workers |-> 0]
  /\ wlocal = [w \in Workers |-> NoLocal]
  /\ wfound = [w \in Workers |-> {}]
  /\ decrements = [j \in 1..MaxJobs |-> 0]
  /\ restart_events = [j \in 1..MaxJobs |-> 0]
  /\ log = << >>

\* Clients that send per-job GET requests for a job or for an unknown id, with
\* the token of job 1, a token of no job, or none
NextGet ==
  \/ \E endpoint \in Endpoints, job_id \in 0..MaxJobs,
        token \in {Token(1), OtherToken, NoToken}, exists \in BOOLEAN :
        GetJob(endpoint, job_id, token, exists)
  \/ GetReturn

SpecGet == InitGet /\ [][NextGet]_vars

\* One worker (killed and started again at any time) and a client that may
\* cancel its running job
NextCancel ==
  \/ WorkerNext(1, {NORMAL}, FALSE)
  \/ FindCancelled(1)
  \/ \E deduped \in 0..MaxLines : HandleCancelled(1, FALSE, FALSE, deduped)
  \/ \E j \in 1..MaxJobs : Cancel(j)
  \/ Crash(1)
  \/ \E d \in Durations : Tick(d)

SpecCancel == InitN /\ [][NextCancel]_vars

\* The API alone: clients behind two addresses, NumRequests handlers at once
NextAdmit == ApiNext(MaxAdmitJobs, Requests, IPs, StaticInputs)

SpecAdmit == Init /\ [][NextAdmit]_vars

\* The worker that keeps polling: every statement of its loop that can run
\* does run (a crawl returns: the fetchers stop at their timeout), a request
\* handler runs to its response, and the clock keeps going
Progress == DetectorNext(1) \/ RunNext(1, {NORMAL, BLOCKED}, TRUE)

HandlerReturns ==
  \/ \E in \in AllInputs : PostCreate(1, in[1], in[2])
  \/ PostIncrement(1)

Fairness ==
  /\ WF_vars(Progress)
  /\ WF_vars(HandlerReturns)
  /\ \A d \in Durations : SF_vars(Tick(d))

SpecLive == Init /\ [][Next]_vars /\ Fairness

\* ------------------------------------------------------------------ claims

\* the transitions the lifecycle allows
LegalTransitions ==
  {<<QUEUED, RUNNING>>, <<QUEUED, EXPIRED>>, <<RUNNING, FINALIZING>>,
   <<RUNNING, QUEUED>>, <<RUNNING, FAILED>>, <<RUNNING, CANCELLED>>,
   <<FINALIZING, DONE>>, <<FINALIZING, FAILED>>, <<CANCELLED, DONE>>,
   <<RUNNING, EXPIRED>>, <<FINALIZING, EXPIRED>>}

\* C1: every change of a job's persisted state, by whichever operation, is one
\* of the legal transitions.
C1_LegalTransitions ==
  [][\A j \in JobIds :
        jobs'[j].state # jobs[j].state
          => <<jobs[j].state, jobs'[j].state>> \in LegalTransitions]_vars

\* a step of the status endpoint's expiry branch
StatusExpiry == \E k \in JobIds : GetStatusExpire(k)

\* C2: once a job is DONE, FAILED or EXPIRED, no step of a worker (run_job, the
\* heartbeat thread, finalize_job, a detector handler) changes any field of its
\* row.
C2_TerminalFrozen ==
  [][\A j \in JobIds :
        (jobs[j].state \in TERMINAL /\ ~StatusExpiry) => jobs'[j] = jobs[j]]_vars

\* worker w is inside run_job, past the lease
Holding(w) ==
  pc[w] \in {"start", "scrapy", "playwright", "finally", "decide", "finalizing"}

\* C3: no job is run by two workers at the same time.
C3_ExclusiveLease ==
  \A v, w \in Workers : (v # w /\ Holding(v) /\ Holding(w)) => wjob[v] # wjob[w]

\* no request handler and no worker is in the middle of an operation
Quiet ==
  /\ \A r \in Requests : rpc[r] = "idle"
  /\ \A w \in Workers : pc[w] = "detect"

Created(ip) == Cardinality({j \in JobIds : jobs[j].ip = ip})

Terminated(ip) ==
  Cardinality({j \in JobIds : jobs[j].ip = ip /\ jobs[j].state \in TERMINAL})

\* C4: between operations, every IP's concurrent_count equals the jobs created
\* for it minus those of them that have reached a terminal state.
C4_CounterMatches ==
  Quiet => \A ip \in IPs : ip_usage[ip] = Created(ip) - Terminated(ip)

\* the reasons a FAILED write records; last_error keeps the reason afterwards
FailReasons == {"orphaned", "stalled", "hard_stalled", UNKNOWN, "finalization_failed"}

\* C5: a job that has been FAILED has had its IP counter decremented exactly
\* once, whatever a worker did to it afterwards.
C5_FailedReleasesOnce ==
  \A j \in JobIds : jobs[j].last_error \in FailReasons => decrements[j] = 1

\* C6: no interleaving of POST handlers takes an IP's counter above
\* CONCURRENT_JOBS_PER_IP.
C6_AdmissionCap == \A ip \in IPs : ip_usage[ip] <= CONCURRENT_JOBS_PER_IP

\* handler r returns a 429 in this step
Rejects(r) == resp'[r] # resp[r] /\ resp'[r].status = 429

\* C7: a POST that is rejected found the counter at CONCURRENT_JOBS_PER_IP or
\* above, answers 429 with the count it read, and changes no table: no job, no
\* event, no counter.
C7_RejectedPostNoEffect ==
  [][\A r \in Requests :
        Rejects(r) => /\ resp'[r].current_jobs = ip_usage[rip'[r]]
                      /\ ip_usage[rip'[r]] >= CONCURRENT_JOBS_PER_IP
                      /\ jobs' = jobs
                      /\ ip_usage' = ip_usage
                      /\ rpc' = rpc
                      /\ log' = << >>]_vars

\* a rejected request next to the full set of jobs that made it so
C7_Witness ==
  \E r \in Requests :
     /\ resp[r].status = 429
     /\ resp[r].current_jobs >= CONCURRENT_JOBS_PER_IP
     /\ Created(rip[r]) >= CONCURRENT_JOBS_PER_IP

\* C8: restart_count never exceeds MAX_RESTARTS, whatever the interleaving of
\* the workers' detector passes.
C8_RestartBound == \A j \in JobIds : jobs[j].restart_count <= MAX_RESTARTS

\* C9: fallback_retry_count is 0 or 1, and a worker starts the JS fetcher as a
\* fallback only for a job that has not fallen back before.
C9_FallbackOnce ==
  [][\A w \in Workers :
        /\ wjob[w] \in JobIds => jobs[wjob[w]].fallback_retry_count \in {0, 1}
        /\ (pc[w] = "scrapy" /\ pc'[w] = "playwright")
             => jobs[wjob[w]].fallback_retry_count = 0]_vars

C11_RestartEventsBound ==
  \A j \in JobIds : restart_events[j] <= MAX_RESTARTS

\* job j is RUNNING with pages and its page count last rose more than
\* STALLED_THRESHOLD_SECONDS ago
NoRiseForLong(j) ==
  /\ jobs[j].state = RUNNING
  /\ jobs[j].pages_fetched > 0
  /\ OlderThan(ts[j].rose, STALLED_THRESHOLD_SECONDS)

\* C12: a detector pass that runs the stalled query finds every RUNNING job
\* with pages whose page count has not risen for longer than
\* STALLED_THRESHOLD_SECONDS, also a job whose worker is alive and beating.
C12_StalledSeen ==
  [][\A w \in Workers :
        (pc[w] = "orphaned" /\ pc'[w] = "stalled")
          => \A j \in JobIds :
                NoRiseForLong(j) => <<j, jobs[j].restart_count>> \in wfound'[w]]_vars

\* worker w leaves the strategy selection of run_job in this step
Selects(w) == pc[w] = "start" /\ pc'[w] \in {"scrapy", "playwright"}

StaticReturns(w) == pc[w] = "scrapy" /\ pc'[w] \in {"playwright", "finally"}

\* C14: when the static fetcher has returned, the JS fetcher is run again
\* exactly when (the raw log holds no page or the site status is BLOCKED or
\* THROTTLED) and the job's fallback_retry_count is below 1; the fallback sets
\* fallback_retry_count to 1 and writes a fallback_triggered event.
C14_FallbackRule ==
  [][\A w \in Workers :
        StaticReturns(w) =>
          LET j == wjob[w]
              pages == IF raw'[j] = NULL THEN 0 ELSE raw'[j]
              due == /\ pages = 0 \/ jobs'[j].site_status \in {BLOCKED, THROTTLED}
                     /\ jobs[j].fallback_retry_count < 1 IN
          /\ pc'[w] = "playwright" <=> due
          /\ pc'[w] = "playwright" =>
               /\ jobs'[j].fallback_retry_count = 1
               /\ \E k \in 1..Len(log') :
                     log'[k] = Event(j, "fallback_triggered")]_vars

\* worker w ends a run in which the static fetcher and then the JS fetcher, run
\* as the fallback, both left the raw log without a page
BothEmpty(w) ==
  /\ pc[w] = "decide" /\ pc'[w] = "detect"
  /\ ~wlocal[w].success
  /\ jobs[wjob[w]].crawler_strategy = "scrapy_fallback_playwright"
  /\ Lines(wjob[w]) = 0

\* C15: a static crawl without a page takes the fallback (fallback_retry_count
\* 1, event fallback_triggered); when the JS fetcher yields no page either the
\* job ends FAILED and its last_error has the reason blocked.
C15_ZeroPagesEndsBlocked ==
  [][\A w \in Workers :
        LET j == wjob[w] IN
        /\ (StaticReturns(w) /\ Lines(j) = 0 /\ jobs[j].fallback_retry_count = 0)
             => /\ pc'[w] = "playwright"
                /\ jobs'[j].fallback_retry_count = 1
                /\ \E k \in 1..Len(log') : log'[k] = Event(j, "fallback_triggered")
        /\ BothEmpty(w)
             => /\ jobs'[j].state = FAILED
                /\ jobs'[j].last_error = BLOCKED]_vars

\* the responses with one status code that a BlockingEvidence value counts
Counted(evidence, status_code) ==
  SumValues([k \in {x \in DOMAIN evidence.status_codes : x.value = status_code}
               |-> evidence.status_codes[k]])

\* the first matching row of the classification table
TableStatus(evidence) ==
  IF evidence.captcha_hits + evidence.waf_hits > 0 THEN BLOCKED
  ELSE IF 2 * evidence.login_redirects > evidence.total_responses
  THEN LOGIN_REQUIRED
  ELSE IF 100 * Counted(evidence, 429) >= 20 * evidence.total_responses
  THEN THROTTLED
  ELSE IF 100 * Counted(evidence, 403) >= 30 * evidence.total_responses
  THEN BLOCKED
  ELSE IF evidence.duplicate_ratio >= 500 THEN BLOCKED
  ELSE NORMAL

\* C16: the status analyze_blocking_signals returns for a BlockingEvidence
\* value with responses is the one of the first matching row of the table.
C16_TableOrder ==
  (verdict # NoVerdict /\ evidence_file # NoFile /\ evidence_file.total_responses > 0)
    => verdict.site_status = TableStatus(verdict.tracker_evidence)

\* C17: a static crawl whose tracker counted 429 on at least 20% of the
\* responses, and no captcha, WAF or login signal, is classified THROTTLED with
\* signals_detected = [excessive_429] from the evidence file it wrote, and the
\* fallback is triggered.
C17_ThrottledEndToEnd ==
  (/\ verdict # NoVerdict /\ evidence_file # NoFile
   /\ 100 * Get(tracker.status_codes, IntKey(429), 0)
        >= 20 * tracker.total_responses
   /\ tracker.total_responses > 0
   /\ tracker.captcha_hits = 0 /\ tracker.waf_hits = 0
   /\ tracker.login_redirects = 0)
    => /\ verdict.site_status = THROTTLED
       /\ verdict.signals_detected = <<"excessive_429">>
       /\ verdict.fallback

\* the last line of the raw log with the canonical URL key of record
LastWithKey(record) ==
  LET last == CHOOSE i \in 1..Len(raw_log) :
                /\ CanonicalKey(raw_log[i]) = CanonicalKey(record)
                /\ \A k \in (i + 1)..Len(raw_log) :
                      CanonicalKey(raw_log[k]) # CanonicalKey(record) IN
  raw_log[last]

\* C18: pages.jsonl holds at most one record per canonical URL key, and the
\* record it holds for a key is the last one with that key in the raw log.
C18_DedupLaw ==
  pages_jsonl.exists =>
    LET lines == pages_jsonl.lines IN
    /\ \A i, k \in 1..Len(lines) :
          CanonicalKey(lines[i]) = CanonicalKey(lines[k]) => i = k
    /\ \A i \in 1..Len(lines) :
          /\ \E k \in 1..Len(raw_log) :
                CanonicalKey(raw_log[k]) = CanonicalKey(lines[i])
          /\ lines[i] = LastWithKey(lines[i])

\* three records with one key and the titles T1, T2, T3, of which pages.jsonl
\* keeps the T3 one; the second has no canonical_url of its own
C18_Witness ==
  /\ pages_jsonl.exists
  /\ Len(raw_log) = 3
  /\ \A i \in 1..3 : raw_log[i].title = Titles[i]
  /\ raw_log[2].canonical_url = NoUrl /\ raw_log[1].canonical_url # NoUrl
  /\ Len(pages_jsonl.lines) = 1
  /\ pages_jsonl.lines[1].title = "T3"

\* C19: the records of pages.jsonl that passed the quality gate and are not
\* duplicates number at most max_pages.
C19_BudgetRespected ==
  pages_jsonl.exists =>
    Cardinality({i \in 1..Len(pages_jsonl.lines) :
                   /\ pages_jsonl.lines[i].quality_passed
                   /\ ~pages_jsonl.lines[i].is_duplicate}) <= max_pages

\* C20: a job never shows more pages exported than pages fetched.
C20_ExportedWithinFetched ==
  \A j \in JobIds : jobs[j].pages_exported <= jobs[j].pages_fetched

\* C21: finished_at is set exactly on the jobs whose state is terminal (DONE,
\* FAILED, EXPIRED, CANCELLED); no QUEUED, RUNNING or FINALIZING job has it.
C21_FinishedIffTerminal ==
  \A j \in JobIds :
     jobs[j].finished <=> jobs[j].state \in TERMINAL \cup {CANCELLED}

\* C22: canonicalize_url is idempotent: canonicalizing a canonical URL gives
\* the same URL back.
C22_Idempotent ==
  link_canonical # NoUrl => canonicalize_url(link_canonical) = link_canonical

\* a handler returns its response to the request it was given
Served == reply = NoReply /\ reply' # NoReply

\* the request is for an existing job, with a token that is not the job's
WrongToken(req) ==
  /\ req.job_id \in JobIds
  /\ req.token \notin {NoToken, Token(req.job_id)}

\* C23: a per-job GET with a wrong token on an existing job gets the response
\* that the same request for an unknown job id gets (404, same body), on every
\* endpoint and whatever the job's state or expiry, and changes nothing.
C23_WrongTokenAsUnknown ==
  [][(Served /\ WrongToken(request'))
       => /\ reply'.code = 404
          /\ \A exists \in BOOLEAN :
                reply' = Response(request'.endpoint, UnknownJob, request'.token, exists)
          /\ UNCHANGED <<jobs, ts, expired, ip_usage, raw>>]_vars

\* a wrong token was refused on the download of a DONE job
C23_Witness ==
  /\ WrongToken(request)
  /\ request.endpoint = "pages.jsonl"
  /\ jobs[request.job_id].state = DONE
  /\ reply = NotFound

\* the request is for an existing job, with the job's token
RightToken(req) ==
  /\ req.job_id \in JobIds
  /\ req.token = Token(req.job_id)

Downloads == {"pages.jsonl", "summary.json"}

\* C24: a download request with the job's token streams the file only when
\* the job is DONE, gets 410 when it is EXPIRED and 400 in every other state,
\* and never changes the job.
C24_DownloadByState ==
  [][(Served /\ request'.endpoint \in Downloads /\ RightToken(request'))
       => LET state == jobs[request'.job_id].state IN
          /\ reply'.file # "-" => state = DONE
          /\ state = EXPIRED => reply'.code = 410
          /\ state \notin {DONE, EXPIRED} => reply'.code = 400
          /\ UNCHANGED <<jobs, ts, expired, ip_usage, raw>>]_vars

\* the summary of a DONE job whose expires_at has passed was streamed
C24_Witness ==
  /\ RightToken(request)
  /\ request.endpoint = "summary.json"
  /\ jobs[request.job_id].state = DONE
  /\ request.job_id \in expired
  /\ reply.code = 200
  /\ reply.file = "summary.json"

\* C25: every QUEUED, RUNNING or FINALIZING job whose expires_at has passed
\* is eventually EXPIRED, whether or not a client asks for its status.
C25_ExpiredEventually ==
  \A j \in 1..MaxJobs :
     (/\ Len(jobs) >= j
      /\ j \in expired
      /\ jobs[j].state \in {QUEUED, RUNNING, FINALIZING})
       ~> (Len(jobs) >= j /\ jobs[j].state = EXPIRED)

Fetching(w) == pc[w] \in {"scrapy", "playwright"}

\* worker w is in finalize_job, between the FINALIZING write and the return
Finalizing(w) == pc[w] = "finalizing"

\* C27: a job's directory has one writer at a time: no two workers have a
\* fetcher or the finalizer at work on the same job, so the finalizer never
\* reads the raw log while a fetcher appends to it.
C27_SingleWriter ==
  \A v, w \in Workers :
     (v # w /\ wjob[v] = wjob[w] /\ (Fetching(v) \/ Finalizing(v)))
       => ~(Fetching(w) \/ Finalizing(w))

\* job j is orphaned: RUNNING or FINALIZING with a heartbeat older than
\* ORPHANED_THRESHOLD_SECONDS
Orphaned(j) ==
  /\ jobs[j].state \in {RUNNING, FINALIZING}
  /\ OlderThan(ts[j].hb, ORPHANED_THRESHOLD_SECONDS)

\* worker w's detector handles a row of its orphaned query in this step
HandlesOrphan(w) == pc[w] = "orphaned" /\ HandleStuck(w)

\* C28: the orphan handler acts on the jobs that are orphaned, all of them and
\* no other; it queues the job again with restart_count one higher when
\* restart_count < MAX_RESTARTS, and else fails it with the reason orphaned
\* and restart_count as it was.
C28_OrphanRule ==
  [][\A w \in Workers :
        /\ (pc[w] = "detect" /\ FindOrphaned(w))
             => {row[1] : row \in wfound'[w]} = {j \in JobIds : Orphaned(j)}
        /\ HandlesOrphan(w)
             => LET j == Min(wfound[w])[1] IN
                /\ Orphaned(j)
                /\ IF jobs[j].restart_count < MAX_RESTARTS
                   THEN /\ jobs'[j].state = QUEUED
                        /\ jobs'[j].restart_count = jobs[j].restart_count + 1
                   ELSE /\ jobs'[j].state = FAILED
                        /\ jobs'[j].last_error = "orphaned"
                        /\ jobs'[j].restart_count = jobs[j].restart_count]_vars

\* job j is hard-stalled: RUNNING without a page, started more than
\* HARD_STALLED_THRESHOLD_SECONDS ago
HardStalled(j) ==
  /\ jobs[j].state = RUNNING
  /\ jobs[j].pages_fetched = 0
  /\ OlderThan(ts[j].started, HARD_STALLED_THRESHOLD_SECONDS)

\* C29: the hard-stalled handler moves a hard-stalled job straight to FAILED
\* with the reason hard_stalled, whatever its restart_count; it never queues
\* it again and leaves restart_count as it was.
C29_HardStallRule ==
  [][\A w \in Workers :
        (pc[w] = "hard_stalled" /\ wfound[w] # {} /\ wfound'[w] # wfound[w])
          => LET j == Min(wfound[w])[1] IN
             HardStalled(j)
               => /\ jobs'[j].state = FAILED
                  /\ jobs'[j].last_error = "hard_stalled"
                  /\ jobs'[j].restart_count = jobs[j].restart_count]_vars

\* a job that had been restarted was failed as hard-stalled
C29_Witness ==
  \E j \in JobIds :
     /\ jobs[j].state = FAILED
     /\ jobs[j].last_error = "hard_stalled"
     /\ jobs[j].restart_count > 0

\* worker w's heartbeat thread beats in this step: the beat it makes when it
\* starts, or a later one
Beats(w) == (pc[w] = "start" /\ StartCrawl(w)) \/ Heartbeat(w)

\* C30: a heartbeat always writes runner_heartbeat_at, and it leaves
\* last_progress_at as it was unless the page count it reports is higher than
\* the stored one.
C30_HeartbeatFrame ==
  [][\A w \in Workers :
        Beats(w)
          => LET j == wjob[w] IN
             /\ ts'[j].hb = 0
             /\ Lines(j) <= jobs[j].pages_fetched
                  => ts'[j].progress = ts[j].progress]_vars

\* ---------------------------------------------------------------- C31

\* the STATE_CHANGE-typed rows that a step writes for job j
StateChangesOf(j) ==
  {k \in 1..Len(log') : log'[k].job = j /\ log'[k].event = "state_change"}

\* the state job j held before the step ("none" for a job the step creates)
StateBefore(j) == IF j \in JobIds THEN jobs[j].state ELSE "none"

\* C31: the event log mirrors the state machine: a step that changes the
\* persisted state of a job (or creates it) writes exactly one STATE_CHANGE
\* row for it, from the state held before to the new state, and a step that
\* leaves the state of a job alone writes no STATE_CHANGE row for it
C31_EventLogMirrors ==
  [][\A j \in 1..Len(jobs') :
       IF StateBefore(j) # jobs'[j].state
       THEN StateChangesOf(j) # {}
            /\ \A k \in StateChangesOf(j) :
                  log'[k] = StateChange(j, StateBefore(j), jobs'[j].state)
            /\ Cardinality(StateChangesOf(j)) = 1
       ELSE StateChangesOf(j) = {}]_vars

\* ---------------------------------------------------------------- C32

\* worker w's detector handles the row of cancelled job j in this step
HandlesCancelled(w, j) ==
  /\ pc[w] = "cancelled"
  /\ wfound[w] # {}
  /\ Min(wfound[w])[1] = j
  /\ wfound'[w] # wfound[w]

\* C32: over any number of detector passes, a CANCELLED job with pages fetched
\* and none exported is finalized by the pass that finds it and ends DONE, and
\* a CANCELLED job with no page fetched has had its counter slot released
\* exactly once after any pass that handled it
C32_CancelledJobs ==
  [][\A w \in Workers, j \in JobIds :
       HandlesCancelled(w, j) =>
         /\ (jobs[j].state = CANCELLED /\ jobs[j].pages_fetched > 0
               /\ jobs[j].pages_exported = 0) => jobs'[j].state = DONE
         /\ (jobs[j].state = CANCELLED /\ jobs[j].pages_fetched = 0)
               => decrements'[j] = 1]_vars

\* ---------------------------------------------------------------- C33

\* C33: the budget is consumed only by quality non-duplicate pages: the
\* static fetcher stops for its budget only once the pages that passed the
\* quality gate and are no duplicates number max_pages; a page that fails the
\* gate or is a duplicate brings the crawl no closer to that stop
C33_BudgetOfQualityPages ==
  spider.reason \in {"max_pages_reached", "quality_budget_reached"}
    => spider.quality_pages_count >= max_pages

\* ---------------------------------------------------------------- C34

\* C34: after any sequence of responses the delay of the host is within
\* [INITIAL_DELAY, MAX_DELAY]: the doubling on 429/503 stops at the ceiling,
\* the recovery on 2xx/3xx at the floor, and a Retry-After header does not
\* lift the delay above the ceiling
C34_DelayWithinBounds ==
  INITIAL_DELAY <= throttle.delay /\ throttle.delay <= MAX_DELAY

\* ---------------------------------------------------------------- C35

\* C35: a response trips the breaker of its host exactly when it makes the
\* last FAILURE_THRESHOLD responses of the host failures (429/503), a success
\* closing the streak, and while the breaker is open no request to the host
\* is with the downloader
C35_CircuitBreaker ==
  /\ throttle.tripped <=> throttle.streak >= FAILURE_THRESHOLD
  /\ throttle.breaker_open => sent = NoSent

\* ---------------------------------------------------------------- C36

\* the crawl phase of worker w's job has ended with pages in the raw log and
\* the site classified as blocking
BlockedWithPages(w) ==
  /\ pc[w] = "decide"
  /\ Lines(wjob[w]) > 0
  /\ jobs[wjob[w]].state = RUNNING
  /\ jobs[wjob[w]].site_status \in {BLOCKED, THROTTLED}

\* C36: site-wide blocking is not itself a failure: a job whose raw log holds
\* at least one page when the crawl phase ends, on a site classified BLOCKED
\* or THROTTLED, goes on to the finalizer and is not made FAILED by run_job
C36_BlockedIsNotFailed ==
  [][\A w \in Workers :
       BlockedWithPages(w) => jobs'[wjob[w]].state # FAILED]_vars

\* ---------------------------------------------------------------- C37

\* the first item that left the pipeline with the text hash of item i
FirstWithHash(i) ==
  CHOOSE k \in 1..i : /\ items[k].text_hash = items[i].text_hash
                      /\ \A c \in 1..(k - 1) : items[c].text_hash # items[i].text_hash

\* C37: within one job there is at most one Document per content hash; its
\* primary URL is the first URL seen with that hash; every later page with
\* the hash gets the id of that document, is_duplicate = true and an alias
\* row, and every page with a new hash gets is_duplicate = false
C37_DocumentIdentity ==
  /\ \A a, b \in 1..Len(doc_rows) :
        doc_rows[a].content_hash = doc_rows[b].content_hash => a = b
  /\ \A i \in 1..Len(items) :
        LET first == FirstWithHash(i) IN
        /\ items[i].is_duplicate <=> first < i
        /\ items[i].document_id = items[first].document_id
        /\ \E d \in 1..Len(doc_rows) :
              /\ doc_rows[d].id = items[i].document_id
              /\ doc_rows[d].content_hash = items[i].text_hash
              /\ doc_rows[d].primary_url = items[first].url
        /\ first < i =>
             \E u \in 1..Len(url_rows) :
                url_rows[u] = DocumentUrl(items[i].document_id, items[i].url,
                                          "content_hash", FALSE)

\* ---------------------------------------------------------------- C38

\* worker w is alive inside run_job for job j with no heartbeat thread at
\* work: between the RUNNING write and heartbeat.start(), or in finalize_job
Processing(w, j) ==
  /\ wjob[w] = j
  /\ pc[w] \in {"start", "finalizing"}

\* the stuck detector of worker v queues job j again or fails it in this step
DetectorActsOn(v, j) ==
  /\ pc[v] \in {"orphaned", "stalled", "hard_stalled"}
  /\ wfound[v] # {}
  /\ wfound'[v] # wfound[v]
  /\ Min(wfound[v])[1] = j

\* C38: a job that a live worker is processing is never queued again or failed
\* by the stuck detector of any worker, neither while its worker finalizes it
\* (the heartbeat thread is stopped by then) nor between a new lease and the
\* first heartbeat of the new holder
C38_LiveJobLeftAlone ==
  [][\A v, w \in Workers, j \in JobIds :
       Processing(w, j) => ~DetectorActsOn(v, j)]_vars

\* ---------------------------------------------------------------- C39

\* C39: with a single worker, every job that satisfies the stalled predicate
\* satisfies the orphaned predicate as well, the stalled query of a detector
\* pass (which runs after the orphan handler) returns no row, and no job is
\* failed with the reason stalled
C39_StalledNeverFires ==
  /\ find_stalled_jobs \subseteq find_orphaned_jobs
  /\ \A w \in Workers : pc[w] = "stalled" => wfound[w] = {}
  /\ \A j \in JobIds : jobs[j].last_error # "stalled"

\* a job with pages and no progress for longer than STALLED_THRESHOLD_SECONDS
\* was queued again by the orphan handler, and the stalled query of the same
\* pass has run
C39_Witness ==
  \E j \in JobIds :
     /\ pc[1] = "stalled"
     /\ jobs[j].state = QUEUED
     /\ jobs[j].restart_count > 0
     /\ jobs[j].pages_fetched > 0
     /\ OlderThan(ts[j].progress, STALLED_THRESHOLD_SECONDS)

\* ---------------------------------------------------------------- C40

\* C40: the pages_fetched of a job never decreases: no heartbeat, no progress
\* write of the JS fetcher after a fallback or a restart, and no final count
\* of the runner lowers the stored value
C40_PagesFetchedMonotonic ==
  [][\A j \in JobIds : jobs'[j].pages_fetched >= jobs[j].pages_fetched]_vars

====
